---------------------------- MODULE Spec2Model ----------------------------
(***************************************************************************)
(* A model of privpdf (Neural-Nirvana/privpdf): the GhostscriptWASM module *)
(* loader, the encrypted container of PDFProtection, the button-triggered  *)
(* operations of PrivPDF and the tool state they work on, the fallback     *)
(* stubs, and QPDFEncryption with PDFProtection.protectWithQPDF.           *)
(*                                                                         *)
(* Each component has its own next-state relation and specification; the   *)
(* variables of the other components stay as Init left them.               *)
(***************************************************************************)
EXTENDS Integers, Sequences, FiniteSets, TLC

VARIABLES
    \* ---- GhostscriptWASM (src/ghostscript-wasm.js) ----
    isLoaded,       \* this.isLoaded
    isLoading,      \* this.isLoading
    gs,             \* this.gs: "null" or "real" (an initialised module with callMain and FS)
    gsModule,       \* this.module: "undefined" or "bound" ({compress: compressPDF.bind(this)})
    pc,             \* position of each caller's loadModule call
    cb,             \* the progressCallback each caller passed
    mockStep,       \* index into `steps` of loadMockModule, per caller
    cdnFail,        \* history: the import or the initialisation rejected in this call
    cbThrew,        \* history: some callback passed to this instance has thrown
    calls,          \* number of loadModule calls made so far
    loadStarts,     \* history: number of loadRealModule executions started
    fallbackReady,  \* history: a call whose CDN load failed has returned normally
    lastCompress    \* outcome of the latest compressPDF call

gsVars == <<isLoaded, isLoading, gs, gsModule, pc, cb, mockStep, cdnFail,
            cbThrew, calls, loadStarts, fallbackReady, lastCompress>>

VARIABLES
    \* ---- PDFProtection (src/unnamed/part_000) ----
    supportsWebCrypto,  \* this.supportsWebCrypto
    cIn,                \* the arguments createEncryptedContainer was last called with
    container,          \* the Uint8Array it returned
    encIn,              \* the arguments of the encryptWithWebCrypto call that built it
    parsed,             \* result of parseEncryptedContainer(container)
    decOut              \* result of the latest decryptPDF(container, password)

ppVars == <<supportsWebCrypto, cIn, container, encIn, parsed, decOut>>

VARIABLES
    \* ---- PrivPDF: one button-triggered operation (src/privpdf.js) ----
    op,             \* the async method the last click invoked
    opPc,           \* where it is: "idle", "try", "catch", "finally", "resolved", "rejected"
    opAwaits,       \* awaits of its try block passed so far
    opFailed,       \* a failure happened in this invocation
    toast,          \* type of the toast on display (#toast className)
    errorShown,     \* this invocation showed an error toast
    blobCallbacks,  \* canvas.toBlob callbacks not yet run
    uncaught        \* an exception escaped outside the method's promise

opVars == <<op, opPc, opAwaits, opFailed, toast, errorShown, blobCallbacks, uncaught>>

VARIABLES
    \* ---- PrivPDF: the state of the tools (src/privpdf.js) ----
    currentTool,    \* this.currentTool
    loadedPDFs,     \* this.loadedPDFs, a Map from key to File
    selectedPages,  \* this.selectedPages, a Set of page numbers
    pageRotations,  \* this.pageRotations, a Map from page number to degrees
    pageOrder,      \* this.pageOrder, an array of page numbers
    thumbs,         \* the .page-thumbnail elements of each tool's container, in document order
    loading,        \* the file handler of each tool that is suspended at an await
    mergeItems,     \* the .file-item elements of #merge-files, in document order
    mergeButton,    \* #merge-button is displayed
    deleting,       \* the deletePages invocation that is suspended at an await
    clock,          \* Date.now()
    last,           \* the latest call and what it was applied to
    out             \* the toast and the download of the latest operation

toolVars == <<currentTool, loadedPDFs, selectedPages, pageRotations, pageOrder, thumbs,
              loading, mergeItems, mergeButton, deleting, clock, last, out>>

VARIABLES
    \* ---- PrivPDF: the operations that write a document from the tool state ----
    pending,        \* the extractPages / saveReorderedPDF invocation suspended at an await
    dragListeners   \* setupDragAndDrop has added its listeners to #reorder-thumbnails

saveVars == <<pending, dragListeners>>

VARIABLES
    \* ---- PrivPDF: splitPDF and addPages, which read the settings of their panel ----
    form,           \* the values of the panel's inputs the latest operation read
    downloads       \* the files the latest splitPDF passed to downloadPDF, in order

formVars == <<form, downloads>>

VARIABLES
    \* ---- the fallback stubs: mock QPDF encrypt, mockCompression ----
    stubIn,         \* the arguments of the latest call of a stub
    stubOut         \* what it returned, and the caller's buffer after the call

stubVars == <<stubIn, stubOut>>

VARIABLES
    \* ---- PrivPDF: the compress panel ----
    compressUi      \* #compress-button (disabled, textContent) and #compression-progress (display)

uiVars == <<compressUi>>

VARIABLES
    \* ---- QPDFEncryption (src/unnamed/part_001) and PDFProtection.protectWithQPDF ----
    windowQPDFEncryption,   \* window.QPDFEncryption is defined
    ctorInit,               \* the initQPDF() the PDFProtection constructor started
    qpdfEncryption,         \* this.qpdfEncryption: 0 for null, or the number of an instance
    instances,              \* the QPDFEncryption objects constructed so far
    qcalls                  \* the calls of loadModule, encryptPDF and protectWithQPDF

qpdfVars == <<windowQPDFEncryption, ctorInit, qpdfEncryption, instances, qcalls>>

VARIABLES
    \* ---- the single-document viewer at the end of src/unnamed/part_000 ----
    pdfDoc,         \* pdfDoc: 0 for null, or the number of pages of the pdf.js document
    viewerPageNum,  \* pageNum of the viewer script
    currentRotation,\* currentRotation
    viewerLoads,    \* the loading tasks of loadPDF that have not settled
    viewerOp,       \* the addPage invocation suspended at an await
    viewerLast      \* the latest step of the viewer

viewerVars == <<pdfDoc, viewerPageNum, currentRotation, viewerLoads, viewerOp, viewerLast>>

VARIABLES
    \* ---- isEncryptedPDF and PrivPDF.handleProtectFile ----
    detect,         \* the latest call of isEncryptedPDF: its argument and what it returned
    protectFile,    \* the handleProtectFile invocation waiting for file.arrayBuffer()
    protectUi       \* display of #protect-button and #decrypt-button, and the toast

detectVars == <<detect, protectFile, protectUi>>

vars == <<gsVars, ppVars, opVars, toolVars, saveVars, formVars, stubVars, uiVars, qpdfVars,
          viewerVars, detectVars>>

\* What the actions of one component leave alone.
notGS == <<ppVars, opVars, toolVars, saveVars, formVars, stubVars, uiVars, qpdfVars,
           viewerVars, detectVars>>
notPP == <<gsVars, opVars, toolVars, saveVars, formVars, stubVars, uiVars, qpdfVars,
           viewerVars, detectVars>>
notOp == <<gsVars, ppVars, toolVars, saveVars, formVars, stubVars, uiVars, qpdfVars,
           viewerVars, detectVars>>
notTool == <<gsVars, ppVars, opVars, saveVars, formVars, stubVars, uiVars, qpdfVars,
             viewerVars, detectVars>>
notSave == <<gsVars, ppVars, opVars, formVars, stubVars, uiVars, qpdfVars,
             viewerVars, detectVars>>
notForm == <<gsVars, ppVars, opVars, saveVars, stubVars, uiVars, qpdfVars,
             viewerVars, detectVars>>
notStub == <<gsVars, ppVars, opVars, toolVars, saveVars, formVars, uiVars, qpdfVars,
             viewerVars, detectVars>>
notUi == <<gsVars, ppVars, toolVars, saveVars, formVars, stubVars, qpdfVars,
           viewerVars, detectVars>>
notQpdf == <<gsVars, ppVars, opVars, toolVars, saveVars, formVars, stubVars, uiVars,
             viewerVars, detectVars>>
notViewer == <<gsVars, ppVars, opVars, toolVars, saveVars, formVars, stubVars, uiVars,
               qpdfVars, detectVars>>
notDetect == <<gsVars, ppVars, opVars, toolVars, saveVars, formVars, stubVars, uiVars,
               qpdfVars, viewerVars>>

-----------------------------------------------------------------------------
(***************************************************************************)
(* GhostscriptWASM                                                         *)
(***************************************************************************)

\* Bounds of the model.
NumCallers == 2
MaxCalls == 3

\* loadMockModule walks an array of five steps.
MockSteps == 5

Callers == 1..NumCallers

\* null (the default), a callback that returns, a callback that may throw.
CallbackKinds == {"null", "total", "throwing"}

\* Whether one invocation `if (progressCallback) progressCallback(...)` throws.
Throws(k) == IF k = "throwing" THEN BOOLEAN ELSE {FALSE}

\* Positions at which a loadRealModule execution is suspended.
InLoadRealModule == {"import", "init", "mock"}

LoadsInProgress == Cardinality({c \in Callers : pc[c] \in InLoadRealModule})

getStatus ==
    IF isLoading THEN "loading"
    ELSE IF isLoaded THEN "ready"
    ELSE "not-loaded"

NoCompress == [called |-> FALSE, afterFallback |-> FALSE, outcome |-> "none",
               success |-> FALSE, method |-> "none"]

InitGS ==
    /\ isLoaded = FALSE
    /\ isLoading = FALSE
    /\ gs = "null"
    /\ gsModule = "undefined"
    /\ pc = [c \in Callers |-> "idle"]
    /\ cb = [c \in Callers |-> "null"]
    /\ mockStep = [c \in Callers |-> 0]
    /\ cdnFail = [c \in Callers |-> FALSE]
    /\ cbThrew = FALSE
    /\ calls = 0
    /\ loadStarts = 0
    /\ fallbackReady = FALSE
    /\ lastCompress = NoCompress

AlreadyLoaded_Ignored == FALSE

\* loadModule line 12: `if (this.isLoaded) return;`
AlreadyLoaded == isLoaded

LoadInProgress_Ignored == FALSE

\* loadModule line 13: `if (this.isLoading) { while (this.isLoading) await ...; return; }`
LoadInProgress == isLoading

\* The catch of loadRealModule (lines 63-67) up to its first suspension:
\* progressCallback('Using fallback compression...'), then loadMockModule's
\* first progressCallback and its first 500 ms timer.  `t1`, `t2` say whether
\* the two callback invocations throw (a throw rejects loadRealModule);
\* `prior` says whether a callback had already thrown in this turn.
Fallback(c, t1, t2, prior) ==
    /\ cbThrew' = (cbThrew \/ prior \/ t1 \/ t2)
    /\ IF t1 \/ t2
       THEN /\ pc' = [pc EXCEPT ![c] = "rejected"]
            /\ mockStep' = [mockStep EXCEPT ![c] = 0]
       ELSE /\ pc' = [pc EXCEPT ![c] = "mock"]
            /\ mockStep' = [mockStep EXCEPT ![c] = 1]

FailLoad_KeepsLoading(c) ==
    /\ isLoading' = TRUE
    /\ pc' = [pc EXCEPT ![c] = "threw"]

\* The catch of loadModule (lines 32-35): isLoading = false, then rethrow.
FailLoad(c) ==
    /\ isLoading' = FALSE
    /\ pc' = [pc EXCEPT ![c] = "threw"]

\* loadModule(progressCallback), from the call to its first suspension.
Call(c, k) ==
    /\ UNCHANGED notGS
    /\ pc[c] \in {"idle", "returned", "threw"}
    /\ calls < MaxCalls
    /\ calls' = calls + 1
    /\ cb' = [cb EXCEPT ![c] = k]
    /\ cdnFail' = [cdnFail EXCEPT ![c] = FALSE]
    /\ UNCHANGED <<isLoaded, gs, gsModule, fallbackReady, lastCompress>>
    /\ IF AlreadyLoaded
       THEN /\ pc' = [pc EXCEPT ![c] = "returned"]
            /\ UNCHANGED <<isLoading, mockStep, cbThrew, loadStarts>>
       ELSE IF LoadInProgress
       THEN /\ pc' = [pc EXCEPT ![c] = "polling"]
            /\ UNCHANGED <<isLoading, mockStep, cbThrew, loadStarts>>
       ELSE \E t25 \in Throws(k), t41 \in Throws(k), t66 \in Throws(k), t82 \in Throws(k) :
            IF t25
            THEN \* line 25 throws before loadRealModule is called:
                 \* isLoading = true (line 21) is undone by the catch
                 /\ FailLoad(c)
                 /\ cbThrew' = TRUE
                 /\ UNCHANGED <<mockStep, loadStarts>>
            ELSE /\ isLoading' = TRUE
                 /\ loadStarts' = loadStarts + 1
                 /\ IF t41
                    THEN Fallback(c, t66, t82, TRUE)
                    ELSE /\ pc' = [pc EXCEPT ![c] = "import"]
                         /\ UNCHANGED <<mockStep, cbThrew>>

\* The dynamic import of gs.mjs (line 44) settles.
ImportSettles(c, ok) ==
    /\ UNCHANGED notGS
    /\ pc[c] = "import"
    /\ UNCHANGED <<isLoaded, isLoading, gs, gsModule, cb, calls, loadStarts,
                   fallbackReady, lastCompress>>
    /\ \E t46 \in Throws(cb[c]), t66 \in Throws(cb[c]), t82 \in Throws(cb[c]) :
       IF ok
       THEN /\ UNCHANGED cdnFail
            /\ IF t46
               THEN Fallback(c, t66, t82, TRUE)
               ELSE /\ pc' = [pc EXCEPT ![c] = "init"]
                    /\ UNCHANGED <<mockStep, cbThrew>>
       ELSE /\ cdnFail' = [cdnFail EXCEPT ![c] = TRUE]
            /\ Fallback(c, t66, t82, FALSE)

\* initGhostscript(...) (lines 49-54) settles; on success this.gs is assigned
\* before the 'Ghostscript WASM ready!' callback runs.
InitSettles(c, ok) ==
    /\ UNCHANGED notGS
    /\ pc[c] = "init"
    /\ UNCHANGED <<isLoaded, isLoading, cb, calls, loadStarts, fallbackReady,
                   lastCompress>>
    /\ \E t56 \in Throws(cb[c]), t66 \in Throws(cb[c]), t82 \in Throws(cb[c]) :
       IF ok
       THEN /\ gs' = "real"
            /\ UNCHANGED cdnFail
            /\ IF t56
               THEN Fallback(c, t66, t82, TRUE) /\ UNCHANGED gsModule
               ELSE /\ gsModule' = "bound"
                    /\ pc' = [pc EXCEPT ![c] = "resolved"]
                    /\ UNCHANGED <<mockStep, cbThrew>>
       ELSE /\ cdnFail' = [cdnFail EXCEPT ![c] = TRUE]
            /\ UNCHANGED <<gs, gsModule>>
            /\ Fallback(c, t66, t82, FALSE)

\* A 500 ms timer of loadMockModule (line 83) fires: the next step's callback
\* runs, or after the last step this.module is installed.
MockTimer(c) ==
    /\ UNCHANGED notGS
    /\ pc[c] = "mock"
    /\ UNCHANGED <<isLoaded, isLoading, gs, cb, cdnFail, calls, loadStarts,
                   fallbackReady, lastCompress>>
    /\ IF mockStep[c] < MockSteps
       THEN \E t82 \in Throws(cb[c]) :
            /\ UNCHANGED gsModule
            /\ cbThrew' = (cbThrew \/ t82)
            /\ IF t82
               THEN /\ pc' = [pc EXCEPT ![c] = "rejected"]
                    /\ mockStep' = [mockStep EXCEPT ![c] = 0]
               ELSE /\ mockStep' = [mockStep EXCEPT ![c] = mockStep[c] + 1]
                    /\ UNCHANGED pc
       ELSE /\ gsModule' = "bound"
            /\ pc' = [pc EXCEPT ![c] = "resolved"]
            /\ mockStep' = [mockStep EXCEPT ![c] = 0]
            /\ UNCHANGED cbThrew

\* `await this.loadRealModule(...)` (line 28) resumes with the promise's outcome.
Resume(c) ==
    /\ UNCHANGED notGS
    /\ pc[c] \in {"resolved", "rejected"}
    /\ UNCHANGED <<gs, gsModule, cb, mockStep, cdnFail, cbThrew, calls,
                   loadStarts, lastCompress>>
    /\ IF pc[c] = "resolved"
       THEN /\ isLoaded' = TRUE
            /\ isLoading' = FALSE
            /\ pc' = [pc EXCEPT ![c] = "returned"]
            /\ fallbackReady' = (fallbackReady \/ cdnFail[c])
       ELSE /\ FailLoad(c)
            /\ UNCHANGED <<isLoaded, fallbackReady>>

\* The 100 ms timer of a waiting caller (lines 15-18) fires and finds the
\* flag cleared; while the flag is set the timer is re-armed and nothing changes.
Poll(c) ==
    /\ UNCHANGED notGS
    /\ pc[c] = "polling"
    /\ ~isLoading
    /\ pc' = [pc EXCEPT ![c] = "returned"]
    /\ UNCHANGED <<isLoaded, isLoading, gs, gsModule, cb, mockStep, cdnFail,
                   cbThrew, calls, loadStarts, fallbackReady, lastCompress>>

\* `this.gs && this.gs.callMain && this.gs.FS` (line 114)
UseRealGhostscript_Always == TRUE

UseRealGhostscript == gs = "real"

\* compressPDF(pdfData, quality, progressCallback, statusCallback): `k` is the
\* kind of its callbacks, `realOk` whether callMain and the FS calls succeed.
compressPDF(k, realOk) ==
    /\ UNCHANGED notGS
    /\ UNCHANGED <<isLoaded, isLoading, gs, gsModule, pc, cb, mockStep, cdnFail,
                   calls, loadStarts, fallbackReady>>
    /\ \E t \in Throws(k) :
       /\ cbThrew' = (cbThrew \/ (isLoaded /\ t))
       /\ lastCompress' =
            IF ~isLoaded
            THEN [called |-> TRUE, afterFallback |-> fallbackReady,
                  outcome |-> "threw", success |-> FALSE,
                  method |-> "Ghostscript WASM module not loaded"]
            ELSE IF t
            THEN [called |-> TRUE, afterFallback |-> fallbackReady,
                  outcome |-> "threw", success |-> FALSE, method |-> "callback"]
            ELSE IF UseRealGhostscript
            THEN IF realOk
                 THEN [called |-> TRUE, afterFallback |-> fallbackReady,
                       outcome |-> "returned", success |-> TRUE,
                       method |-> "Real Ghostscript WASM"]
                 ELSE [called |-> TRUE, afterFallback |-> fallbackReady,
                       outcome |-> "threw", success |-> FALSE,
                       method |-> "Real Ghostscript WASM"]
            ELSE [called |-> TRUE, afterFallback |-> fallbackReady,
                  outcome |-> "returned", success |-> TRUE,
                  method |-> "Mock Compression (Fallback)"]
    /\ lastCompress' # lastCompress

NextGS ==
    \/ \E c \in Callers : \E k \in CallbackKinds : Call(c, k)
    \/ \E c \in Callers : \E ok \in BOOLEAN : ImportSettles(c, ok)
    \/ \E c \in Callers : \E ok \in BOOLEAN : InitSettles(c, ok)
    \/ \E c \in Callers : MockTimer(c)
    \/ \E c \in Callers : Resume(c)
    \/ \E c \in Callers : Poll(c)
    \/ \E k \in CallbackKinds : \E realOk \in BOOLEAN : compressPDF(k, realOk)

\* Every suspended step resumes: timers fire, a promise that has settled
\* resumes its awaiter, and the in-flight import and initialisation settle.
FairGS ==
    \A c \in Callers :
        /\ WF_vars(\E ok \in BOOLEAN : ImportSettles(c, ok))
        /\ WF_vars(\E ok \in BOOLEAN : InitSettles(c, ok))
        /\ WF_vars(MockTimer(c))
        /\ WF_vars(Resume(c))
        /\ WF_vars(Poll(c))

Finished == {"returned", "threw"}

MockMethod == "Mock Compression (Fallback)"

-----------------------------------------------------------------------------
(***************************************************************************)
(* PDFProtection: the encrypted container                                  *)
(*                                                                         *)
(* Byte arrays are sequences over 0..255 (index k of the model is offset   *)
(* k-1 of the code).  Strings are sequences of code points.  A JavaScript  *)
(* value is a tagged tuple: <<"str", s>>, <<"bool", b>>, <<"undef">>, or    *)
(* <<"obj", props>> with props the own properties in insertion order,     *)
(* each <<key, value>>.                                                    *)
(***************************************************************************)

\* Bounds of the model.
MaxPdfLen == 2
MaxCipherLen == 1

\* `new Uint8Array(16)` for the salt, `new Uint8Array(12)` for the IV, and
\* the 128-bit authentication tag AES-GCM appends by default.
SaltLen == 16
IvLen == 12
TagLen == 16

\* The ASCII strings of the source, as code points ('1.0' is v1_0 and
\* 'AES-256-GCM' is AES_256_GCM).
Str ==
    [
      version |-> <<118, 101, 114, 115, 105, 111, 110>>,
      v1_0 |-> <<49, 46, 48>>,
      encryption |-> <<101, 110, 99, 114, 121, 112, 116, 105, 111, 110>>,
      AES_256_GCM |-> <<65, 69, 83, 45, 50, 53, 54, 45, 71, 67, 77>>,
      timestamp |-> <<116, 105, 109, 101, 115, 116, 97, 109, 112>>,
      permissions |-> <<112, 101, 114, 109, 105, 115, 115, 105, 111, 110, 115>>,
      hasUserPassword |-> <<104, 97, 115, 85, 115, 101, 114, 80, 97, 115, 115, 119, 111, 114, 100>>,
      hasOwnerPassword |-> <<104, 97, 115, 79, 119, 110, 101, 114, 80, 97, 115, 115, 119, 111, 114, 100>>,
      print |-> <<112, 114, 105, 110, 116>>,
      copy |-> <<99, 111, 112, 121>>,
      modify |-> <<109, 111, 100, 105, 102, 121>>,
      annotate |-> <<97, 110, 110, 111, 116, 97, 116, 101>>,
      fillForms |-> <<102, 105, 108, 108, 70, 111, 114, 109, 115>>,
      extract |-> <<101, 120, 116, 114, 97, 99, 116>>,
      assemble |-> <<97, 115, 115, 101, 109, 98, 108, 101>>,
      printHighQuality |-> <<112, 114, 105, 110, 116, 72, 105, 103, 104, 81, 117, 97, 108, 105, 116, 121>>,
      true |-> <<116, 114, 117, 101>>,
      false |-> <<102, 97, 108, 115, 101>> ]

\* new Date().toISOString() at the time of the call: 2026-11-01T15:04:05.678Z
Timestamps ==
    { <<50, 48, 50, 54, 45, 49, 49, 45, 48, 49, 84, 49, 53, 58, 48, 52, 58, 48, 53, 46, 54, 55, 56, 90>> }

JStr(str) == <<"str", str>>
JBool(b) == <<"bool", b>>
JUndef == <<"undef">>
JObj(props) == <<"obj", props>>

RECURSIVE SeqSum(_)
SeqSum(q) == IF q = <<>> THEN 0 ELSE Head(q) + SeqSum(Tail(q))

RECURSIVE SeqsUpTo(_, _)
\* All sequences over S of length at most n.
SeqsUpTo(S, n) ==
    IF n = 0 THEN {<<>>}
    ELSE LET shorter == SeqsUpTo(S, n - 1)
         IN  shorter \cup {Append(q, b) : q \in shorter, b \in S}

Ramp(n, start, step) == [k \in 1..n |-> (start + (k - 1) * step) % 256]

\* Inputs the actions draw from.
Plaintexts == SeqsUpTo({37, 255}, MaxPdfLen)
Ciphertexts == SeqsUpTo({0, 200}, MaxCipherLen)
Salts == {Ramp(SaltLen, 1, 1), Ramp(SaltLen, 250, 3)}
Ivs == {Ramp(IvLen, 100, 11)}
\* '', 'a', 'a\u0000', 'b', 'é'
Passwords == {<<>>, <<97>>, <<97, 0>>, <<98>>, <<233>>}
OwnerPasswords == {<<>>, <<98>>}
\* options.permissions: absent, the object privpdf.js builds (lines 1137-1142),
\* and a wider object a caller of the class may pass.
PermissionChoices ==
    { JUndef,
      JObj(<< <<Str.print, JBool(TRUE)>>, <<Str.copy, JBool(TRUE)>>,
              <<Str.modify, JBool(TRUE)>>, <<Str.annotate, JBool(TRUE)>> >>),
      JObj(<< <<Str.print, JBool(TRUE)>>, <<Str.copy, JBool(TRUE)>>,
              <<Str.modify, JBool(TRUE)>>, <<Str.annotate, JBool(TRUE)>>,
              <<Str.fillForms, JBool(FALSE)>>, <<Str.extract, JBool(FALSE)>>,
              <<Str.assemble, JBool(FALSE)>>, <<Str.printHighQuality, JBool(FALSE)>> >>) }
OptionChoices ==
    [userPassword : Passwords, ownerPassword : OwnerPasswords,
     permissions : PermissionChoices]

\* ---- TextEncoder / TextDecoder (UTF-8, code points below U+0800) ----

Utf8Char(cp) ==
    IF cp < 128 THEN <<cp>> ELSE <<192 + (cp \div 64), 128 + (cp % 64)>>

RECURSIVE Utf8Encode(_)
\* TextEncoder.encode: the encodings of the code points, concatenated.
Utf8Encode(cps) ==
    IF cps = <<>> THEN <<>>
    ELSE IF Len(cps) = 1 THEN Utf8Char(cps[1])
    ELSE LET h == Len(cps) \div 2
         IN  Utf8Encode(SubSeq(cps, 1, h)) \o Utf8Encode(SubSeq(cps, h + 1, Len(cps)))

IsLead(b) == b >= 194 /\ b < 224
IsContinuation(b) == b >= 128 /\ b < 192

\* TextDecoder.decode: a lead byte and the continuation byte after it make
\* one code point; any other byte above 127 decodes to U+FFFD.
Utf8Decode(bytes) ==
    LET Consumed(k) == k > 1 /\ IsLead(bytes[k - 1]) /\ IsContinuation(bytes[k])
        starts == SelectSeq([k \in 1..Len(bytes) |-> k], LAMBDA k : ~Consumed(k))
        CodePoint(k) ==
            IF bytes[k] < 128 THEN bytes[k]
            ELSE IF IsLead(bytes[k]) /\ k < Len(bytes) /\ IsContinuation(bytes[k + 1])
            THEN (bytes[k] - 192) * 64 + (bytes[k + 1] - 128)
            ELSE 65533
    IN  [j \in 1..Len(starts) |-> CodePoint(starts[j])]

\* ---- JSON.stringify / JSON.parse (objects, strings without escapes, booleans) ----

RECURSIVE JSONstringify(_), StringifyMembers(_, _, _)
\* A property whose value is undefined is left out.
StringifyMembers(props, k, first) ==
    IF k > Len(props) THEN <<>>
    ELSE IF props[k][2][1] = "undef" THEN StringifyMembers(props, k + 1, first)
    ELSE (IF first THEN <<>> ELSE <<44>>)
         \o <<34>> \o props[k][1] \o <<34, 58>>
         \o JSONstringify(props[k][2])
         \o StringifyMembers(props, k + 1, FALSE)

JSONstringify(v) ==
    IF v[1] = "str" THEN <<34>> \o v[2] \o <<34>>
    ELSE IF v[1] = "bool" THEN (IF v[2] THEN Str.true ELSE Str.false)
    ELSE <<123>> \o StringifyMembers(v[2], 1, TRUE) \o <<125>>

ParseFail == [ok |-> FALSE, val |-> JUndef, next |-> 0]

HasAt(str, k, lit) ==
    /\ k + Len(lit) - 1 <= Len(str)
    /\ SubSeq(str, k, k + Len(lit) - 1) = lit

\* Index of the first '"' at or after k, 0 if there is none.
ScanQuote(str, k) ==
    LET quotes == {q \in k..Len(str) : str[q] = 34}
    IN  IF quotes = {} THEN 0
        ELSE CHOOSE q \in quotes : \A r \in quotes : q <= r

RECURSIVE ParseValue(_, _), ParseMembers(_, _, _)
ParseMembers(str, k, acc) ==
    IF k > Len(str) \/ str[k] # 34 THEN ParseFail
    ELSE LET q == ScanQuote(str, k + 1)
         IN  IF q = 0 \/ q + 1 > Len(str) \/ str[q + 1] # 58 THEN ParseFail
             ELSE LET r == ParseValue(str, q + 2)
                      props == Append(acc, <<SubSeq(str, k + 1, q - 1), r.val>>)
                  IN  IF ~r.ok \/ r.next > Len(str) THEN ParseFail
                      ELSE IF str[r.next] = 44 THEN ParseMembers(str, r.next + 1, props)
                      ELSE IF str[r.next] = 125
                      THEN [ok |-> TRUE, val |-> JObj(props), next |-> r.next + 1]
                      ELSE ParseFail

ParseValue(str, k) ==
    IF k > Len(str) THEN ParseFail
    ELSE IF str[k] = 34
    THEN LET q == ScanQuote(str, k + 1)
         IN  IF q = 0 THEN ParseFail
             ELSE [ok |-> TRUE, val |-> JStr(SubSeq(str, k + 1, q - 1)), next |-> q + 1]
    ELSE IF HasAt(str, k, Str.true)
    THEN [ok |-> TRUE, val |-> JBool(TRUE), next |-> k + Len(Str.true)]
    ELSE IF HasAt(str, k, Str.false)
    THEN [ok |-> TRUE, val |-> JBool(FALSE), next |-> k + Len(Str.false)]
    ELSE IF str[k] = 123
    THEN IF k + 1 <= Len(str) /\ str[k + 1] = 125
         THEN [ok |-> TRUE, val |-> JObj(<<>>), next |-> k + 2]
         ELSE ParseMembers(str, k + 1, <<>>)
    ELSE ParseFail

\* JSON.parse: the whole text must be one value, else a SyntaxError.
JSONparse(str) ==
    LET r == ParseValue(str, 1)
    IN  IF r.ok /\ r.next = Len(str) + 1
        THEN [ok |-> TRUE, val |-> r.val]
        ELSE [ok |-> FALSE, val |-> JUndef]

RECURSIVE PropLookup(_, _, _)
PropLookup(props, key, k) ==
    IF k > Len(props) THEN JUndef
    ELSE IF props[k][1] = key THEN props[k][2]
    ELSE PropLookup(props, key, k + 1)

\* value.key
JGet(v, key) == IF v[1] = "obj" THEN PropLookup(v[2], key, 1) ELSE JUndef

\* ---- DataView / typed arrays ----

\* DataView.setUint32(offset, n, true): the four bytes written.
LE32_BigEndian(n) ==
    <<(n \div 16777216) % 256, (n \div 65536) % 256, (n \div 256) % 256, n % 256>>

LE32(n) ==
    <<n % 256, (n \div 256) % 256, (n \div 65536) % 256, (n \div 16777216) % 256>>

\* DataView.getUint32(offset, true).  A value of 2^31 or more exceeds every
\* array length and is modelled by the largest integer below it.
GetUint32LE(bytes, offset) ==
    IF bytes[offset + 4] >= 128 THEN 2147483647
    ELSE bytes[offset + 1] + 256 * bytes[offset + 2] + 65536 * bytes[offset + 3]
             + 16777216 * bytes[offset + 4]

Zeros(n) == [k \in 1..n |-> 0]

\* typedArray.set(src, offset)
SetAt(arr, src, offset) ==
    [k \in 1..Len(arr) |->
        IF k > offset /\ k <= offset + Len(src) THEN src[k - offset] ELSE arr[k]]

\* The metadata object of createEncryptedContainer (lines 292-299); `now` is
\* new Date().toISOString().
Metadata(options, now) ==
    JObj(<< <<Str.version, JStr(Str.v1_0)>>,
            <<Str.encryption, JStr(Str.AES_256_GCM)>>,
            <<Str.timestamp, JStr(now)>>,
            <<Str.permissions, options.permissions>>,
            <<Str.hasUserPassword, JBool(options.userPassword # <<>>)>>,
            <<Str.hasOwnerPassword, JBool(options.ownerPassword # <<>>)>> >>)

MetadataBytes(options, now) == Utf8Encode(JSONstringify(Metadata(options, now)))

createEncryptedContainer(encryptedData, salt, iv, options, now) ==
    LET metadataBytes == MetadataBytes(options, now)
        c0 == Zeros(4 + Len(metadataBytes) + Len(salt) + Len(iv) + Len(encryptedData))
        c1 == SetAt(c0, LE32(Len(metadataBytes)), 0)
        o1 == 4
        c2 == SetAt(c1, metadataBytes, o1)
        o2 == o1 + Len(metadataBytes)
        c3 == SetAt(c2, salt, o2)
        o3 == o2 + Len(salt)
        c4 == SetAt(c3, iv, o3)
        o4 == o3 + Len(iv)
    IN  SetAt(c4, encryptedData, o4)

NoParse == [called |-> FALSE, ok |-> FALSE, error |-> "", metadata |-> JUndef,
            salt |-> <<>>, iv |-> <<>>, encryptedData |-> <<>>]

ParseError(e) == [called |-> TRUE, ok |-> FALSE, error |-> e, metadata |-> JUndef,
                  salt |-> <<>>, iv |-> <<>>, encryptedData |-> <<>>]

\* Where the salt starts: `offset += metadataLength` (line 500).
SaltOffset_NoAdvance(metadataLength) == 4

SaltOffset(metadataLength) == 4 + metadataLength

parseEncryptedContainer(containerData) ==
    IF Len(containerData) < 4 THEN ParseError("RangeError")
    ELSE LET metadataLength == GetUint32LE(containerData, 0)
         IN  IF metadataLength > Len(containerData) - 4 THEN ParseError("RangeError")
             ELSE LET metadataStr == Utf8Decode(SubSeq(containerData, 5, 4 + metadataLength))
                      json == JSONparse(metadataStr)
                      o1 == SaltOffset(metadataLength)
                      o2 == o1 + SaltLen
                      o3 == o2 + IvLen
                  IN  IF ~json.ok THEN ParseError("SyntaxError")
                      ELSE IF o3 > Len(containerData) THEN ParseError("RangeError")
                      ELSE [called |-> TRUE, ok |-> TRUE, error |-> "",
                            metadata |-> json.val,
                            salt |-> SubSeq(containerData, o1 + 1, o2),
                            iv |-> SubSeq(containerData, o2 + 1, o3),
                            encryptedData |-> SubSeq(containerData, o3 + 1, Len(containerData))]

\* ---- crypto.subtle, as an ideal cipher ----

RECURSIVE StripTrailingZeros(_)
StripTrailingZeros(bytes) ==
    IF bytes = <<>> THEN <<>>
    ELSE IF bytes[Len(bytes)] = 0 THEN StripTrailingZeros(SubSeq(bytes, 1, Len(bytes) - 1))
    ELSE bytes

\* importKey('raw', encoder.encode(password), 'PBKDF2') and deriveKey with
\* PBKDF2 / SHA-256: the password is the HMAC key, which HMAC pads with zero
\* bytes to its block size, so passwords that differ only in trailing zero
\* bytes derive the same key.  Otherwise the derived key is taken to be
\* distinct for distinct (password, salt).
deriveKey(password, salt) == <<StripTrailingZeros(Utf8Encode(password)), salt>>

KeyStream(key, iv, k) == (SeqSum(key[1]) + SeqSum(key[2]) + SeqSum(iv) + k) % 256

\* The authentication tag: determined by key, IV and ciphertext, and taken
\* to differ whenever the key differs (no forgery).
GcmTag(key, iv, ct) ==
    <<(SeqSum(ct) + SeqSum(iv)) % 256, SeqSum(key[2]) % 256>>
    \o [k \in 1..(TagLen - 2) |-> IF k <= Len(key[1]) THEN key[1][k] ELSE 0]

\* subtle.encrypt({name: 'AES-GCM', iv}, key, data): ciphertext, then the tag.
AesGcmEncrypt(key, iv, data) ==
    LET ct == [k \in 1..Len(data) |-> (data[k] + KeyStream(key, iv, k)) % 256]
    IN  ct \o GcmTag(key, iv, ct)

\* subtle.decrypt: rejects (OperationError) unless the tag verifies.
AesGcmDecrypt(key, iv, data) ==
    IF Len(data) < TagLen THEN [ok |-> FALSE, data |-> <<>>]
    ELSE LET ct == SubSeq(data, 1, Len(data) - TagLen)
             tag == SubSeq(data, Len(data) - TagLen + 1, Len(data))
         IN  IF tag # GcmTag(key, iv, ct) THEN [ok |-> FALSE, data |-> <<>>]
             ELSE [ok |-> TRUE,
                   data |-> [k \in 1..Len(ct) |->
                                (ct[k] + 256 - KeyStream(key, iv, k)) % 256]]

KeyPassword_OwnerFirst(options) ==
    IF options.ownerPassword # <<>> THEN options.ownerPassword ELSE options.userPassword

\* `const password = userPassword || ownerPassword;` (line 223)
KeyPassword(options) ==
    IF options.userPassword # <<>> THEN options.userPassword ELSE options.ownerPassword

NoCall == [made |-> FALSE, encryptedData |-> <<>>, salt |-> <<>>, iv |-> <<>>,
           options |-> [userPassword |-> <<>>, ownerPassword |-> <<>>,
                        permissions |-> JUndef],
           now |-> <<>>]

NoEnc == [called |-> FALSE, ok |-> FALSE, error |-> "", pdfData |-> <<>>]

NoDec == [called |-> FALSE, ok |-> FALSE, error |-> "", password |-> <<>>,
          data |-> <<>>, metadata |-> JUndef]

InitPP(support) ==
    /\ supportsWebCrypto = support
    /\ cIn = NoCall
    /\ container = <<>>
    /\ encIn = NoEnc
    /\ parsed = NoParse
    /\ decOut = NoDec

\* A direct call createEncryptedContainer(encryptedData, salt, iv, options).
CreateContainer(encryptedData, salt, iv, options, now) ==
    /\ UNCHANGED notPP
    /\ ~cIn.made /\ ~encIn.called
    /\ cIn' = [made |-> TRUE, encryptedData |-> encryptedData, salt |-> salt,
               iv |-> iv, options |-> options, now |-> now]
    /\ container' = createEncryptedContainer(encryptedData, salt, iv, options, now)
    /\ UNCHANGED <<supportsWebCrypto, encIn, parsed, decOut>>

\* encryptWithWebCrypto(pdfData, options); salt and iv are the two
\* getRandomValues results.
encryptWithWebCrypto(pdfData, options, salt, iv, now) ==
    /\ UNCHANGED notPP
    /\ ~cIn.made /\ ~encIn.called
    /\ UNCHANGED <<supportsWebCrypto, parsed, decOut>>
    /\ IF ~supportsWebCrypto
       THEN /\ encIn' = [called |-> TRUE, ok |-> FALSE,
                         error |-> "Web Crypto API not supported", pdfData |-> pdfData]
            /\ UNCHANGED <<cIn, container>>
       ELSE IF KeyPassword(options) = <<>>
       THEN /\ encIn' = [called |-> TRUE, ok |-> FALSE,
                         error |-> "Password required for encryption", pdfData |-> pdfData]
            /\ UNCHANGED <<cIn, container>>
       ELSE LET key == deriveKey(KeyPassword(options), salt)
                encryptedData == AesGcmEncrypt(key, iv, pdfData)
            IN  /\ encIn' = [called |-> TRUE, ok |-> TRUE, error |-> "", pdfData |-> pdfData]
                /\ cIn' = [made |-> TRUE, encryptedData |-> encryptedData, salt |-> salt,
                           iv |-> iv, options |-> options, now |-> now]
                /\ container' = createEncryptedContainer(encryptedData, salt, iv, options, now)

\* parseEncryptedContainer(container)
ParseContainer ==
    /\ UNCHANGED notPP
    /\ cIn.made
    /\ ~parsed.called
    /\ parsed' = parseEncryptedContainer(container)
    /\ UNCHANGED <<supportsWebCrypto, cIn, container, encIn, decOut>>

DecryptError(password, e) ==
    [called |-> TRUE, ok |-> FALSE, error |-> e, password |-> password,
     data |-> <<>>, metadata |-> JUndef]

\* decryptPDF(protectedData, password): every failure inside the try is
\* rethrown as 'Decryption failed: ...'.
decryptPDF(protectedData, password) ==
    IF ~supportsWebCrypto THEN DecryptError(password, "Web Crypto API not supported")
    ELSE LET p == parseEncryptedContainer(protectedData)
         IN  IF ~p.ok THEN DecryptError(password, "Decryption failed")
             ELSE IF JGet(p.metadata, Str.encryption) # JStr(Str.AES_256_GCM)
             THEN DecryptError(password, "Decryption failed")
             ELSE LET key == deriveKey(password, p.salt)
                      d == AesGcmDecrypt(key, p.iv, p.encryptedData)
                  IN  IF ~d.ok THEN DecryptError(password, "Decryption failed")
                      ELSE [called |-> TRUE, ok |-> TRUE, error |-> "",
                            password |-> password, data |-> d.data,
                            metadata |-> p.metadata]

Decrypt(password) ==
    /\ UNCHANGED notPP
    /\ cIn.made
    /\ decOut' = decryptPDF(container, password)
    /\ decOut' # decOut
    /\ UNCHANGED <<supportsWebCrypto, cIn, container, encIn, parsed>>

NextPP ==
    \/ \E ed \in Ciphertexts, salt \in Salts, iv \in Ivs,
          options \in OptionChoices, now \in Timestamps :
            CreateContainer(ed, salt, iv, options, now)
    \/ \E x \in Plaintexts, salt \in Salts, iv \in Ivs,
          options \in OptionChoices, now \in Timestamps :
            encryptWithWebCrypto(x, options, salt, iv, now)
    \/ ParseContainer
    \/ \E password \in Passwords : Decrypt(password)

-----------------------------------------------------------------------------
(***************************************************************************)
(* PrivPDF: the operations behind the buttons (setupButtons, lines         *)
(* 254-301).  Each is an async method whose body is one try statement.     *)
(* An invocation is followed through the awaits of its try block, any of   *)
(* which may reject, its catch clause and its finally clause.              *)
(***************************************************************************)

Operations ==
    {"mergePDFs", "splitPDF", "extractPages", "saveRotatedPDF", "saveReorderedPDF",
     "deletePages", "addPages", "compressPDFWithWASM", "protectPDFWithEncryption",
     "decryptPDF", "applyWatermark", "createPDFFromImages", "convertPDFToImages"}

\* The await expressions in the try block of each method.
Awaits(o) ==
    CASE o = "mergePDFs" -> 5
      [] o = "splitPDF" -> 14
      [] o = "extractPages" -> 5
      [] o = "saveRotatedPDF" -> 3
      [] o = "saveReorderedPDF" -> 5
      [] o = "deletePages" -> 5
      [] o = "addPages" -> 6
      [] o = "compressPDFWithWASM" -> 3
      [] o = "protectPDFWithEncryption" -> 2
      [] o = "decryptPDF" -> 2
      [] o = "applyWatermark" -> 4
      [] o = "createPDFFromImages" -> 7
      [] o = "convertPDFToImages" -> 2

\* The toast a method shows before its first await, if any.
StartToast(o) ==
    CASE o \in {"mergePDFs", "createPDFFromImages", "convertPDFToImages"} -> "success"
      [] o = "splitPDF" -> "info"
      [] OTHER -> "none"

\* Methods that validate their input inside the try block and, when it is
\* invalid, show an error toast and return.
Validating ==
    {"splitPDF", "extractPages", "deletePages", "addPages", "compressPDFWithWASM",
     "protectPDFWithEncryption", "decryptPDF"}

\* Methods whose try statement has a finally clause.
WithFinally == {"compressPDFWithWASM", "protectPDFWithEncryption", "decryptPDF"}

\* The identifiers the finally clause reads.
FinallyReads(o) ==
    CASE o = "compressPDFWithWASM" -> {"progressElement", "compressButton"}
      [] o = "protectPDFWithEncryption" -> {"progressEl", "protectBtn"}
      [] o = "decryptPDF" -> {"progressEl", "decryptBtn"}
      [] OTHER -> {}

\* The identifiers the finally clause declares itself.
FinallyDeclares(o) ==
    CASE o = "protectPDFWithEncryption" -> {"progressEl", "protectBtn"}
      [] o = "decryptPDF" -> {"progressEl", "decryptBtn"}
      [] OTHER -> {}

\* The identifiers declared in the method body outside its try block: none,
\* every const of these methods is declared inside the try block, whose
\* scope ends before catch and finally.
FunctionScope(o) == {}

\* A read of an identifier that is bound nowhere throws a ReferenceError.
FinallyThrows(o) == ~(FinallyReads(o) \subseteq (FinallyDeclares(o) \cup FunctionScope(o)))

AfterTry(o) == IF o \in WithFinally THEN "finally" ELSE "resolved"

\* The compress panel as the page shows it at rest.
CompressIdle == [disabled |-> FALSE, label |-> "Compress with Ghostscript", progress |-> "none"]

\* compressPDFWithWASM, lines 993-995, once the file and the elements are
\* found: the progress is shown, the button disabled and relabelled.
CompressBusy == [disabled |-> TRUE, label |-> "Compressing...", progress |-> "block"]

Settled == {"resolved", "rejected"}

InitOps ==
    /\ op = "none"
    /\ opPc = "idle"
    /\ opAwaits = 0
    /\ opFailed = FALSE
    /\ toast = "none"
    /\ errorShown = FALSE
    /\ blobCallbacks = 0
    /\ uncaught = FALSE
    /\ compressUi = CompressIdle

\* A click on the button of operation o: the method runs up to its first await.
\* A disabled button takes no click.
Click(o) ==
    /\ opPc \in {"idle"} \cup Settled
    /\ blobCallbacks = 0
    /\ o = "compressPDFWithWASM" => ~compressUi.disabled
    /\ op' = o
    /\ opPc' = "try"
    /\ opAwaits' = 0
    /\ opFailed' = FALSE
    /\ errorShown' = FALSE
    /\ uncaught' = FALSE
    /\ toast' = IF StartToast(o) = "none" THEN toast ELSE StartToast(o)
    /\ UNCHANGED blobCallbacks
    /\ UNCHANGED notOp

\* An awaited promise fulfils and the method runs on to the next await.
AwaitFulfils ==
    /\ opPc = "try"
    /\ opAwaits < Awaits(op)
    /\ opAwaits' = opAwaits + 1
    /\ compressUi' = IF op = "compressPDFWithWASM" THEN CompressBusy ELSE compressUi
    /\ UNCHANGED <<op, opPc, opFailed, toast, errorShown, blobCallbacks, uncaught>>
    /\ UNCHANGED notUi

\* Something in the try block throws, or an awaited promise rejects
\* (a missing file, a damaged PDF, a library error, `result.success` false).
TryThrows ==
    /\ opPc = "try"
    /\ opFailed' = TRUE
    /\ opPc' = "catch"
    /\ compressUi' = IF op = "compressPDFWithWASM" THEN CompressBusy ELSE compressUi
    /\ UNCHANGED <<op, opAwaits, toast, errorShown, blobCallbacks, uncaught>>
    /\ UNCHANGED notUi

\* The input is found invalid: showToast(..., 'error'); return;
ValidationFails ==
    /\ opPc = "try"
    /\ op \in Validating
    /\ opFailed' = TRUE
    /\ toast' = "error"
    /\ errorShown' = TRUE
    /\ opPc' = AfterTry(op)
    /\ UNCHANGED <<op, opAwaits, blobCallbacks, uncaught>>
    /\ UNCHANGED notOp

\* The try block runs to its end: the download and the success toast.
\* convertPDFToImages leaves the download to a canvas.toBlob callback.
TryCompletes ==
    /\ opPc = "try"
    /\ opAwaits = Awaits(op)
    /\ toast' = "success"
    /\ opPc' = AfterTry(op)
    /\ blobCallbacks' = IF op = "convertPDFToImages" THEN 1 ELSE blobCallbacks
    /\ UNCHANGED <<op, opAwaits, opFailed, errorShown, uncaught>>
    /\ UNCHANGED notOp

\* catch (error) { this.showToast('Error ...: ' + error.message, 'error'); }
Catch ==
    /\ opPc = "catch"
    /\ toast' = "error"
    /\ errorShown' = TRUE
    /\ opPc' = AfterTry(op)
    /\ UNCHANGED <<op, opAwaits, opFailed, blobCallbacks, uncaught>>
    /\ UNCHANGED notOp

\* The finally clause: an exception thrown there replaces the completion
\* of the try statement and rejects the method's promise.
Finally ==
    /\ opPc = "finally"
    /\ opPc' = IF FinallyThrows(op) THEN "rejected" ELSE "resolved"
    /\ compressUi' = IF op = "compressPDFWithWASM" /\ ~FinallyThrows(op) THEN CompressIdle
                     ELSE compressUi
    /\ UNCHANGED <<op, opAwaits, opFailed, toast, errorShown, blobCallbacks, uncaught>>
    /\ UNCHANGED notUi

\* The callback passed to canvas.toBlob (lines 1568-1575), called later with
\* the blob, or with null when the image could not be encoded; it runs
\* outside the try block.
ToBlobCallback(blobOk) ==
    /\ blobCallbacks > 0
    /\ blobCallbacks' = blobCallbacks - 1
    /\ uncaught' = (uncaught \/ ~blobOk)
    /\ opFailed' = (opFailed \/ ~blobOk)
    /\ UNCHANGED <<op, opPc, opAwaits, toast, errorShown>>
    /\ UNCHANGED notOp

NextOps ==
    \/ \E o \in Operations : Click(o)
    \/ AwaitFulfils
    \/ TryThrows
    \/ ValidationFails
    \/ TryCompletes
    \/ Catch
    \/ Finally
    \/ \E blobOk \in BOOLEAN : ToBlobCallback(blobOk)

-----------------------------------------------------------------------------
(***************************************************************************)
(* PrivPDF: the state of the tools                                         *)
(*                                                                         *)
(* A File is a record with its name, its MIME type and, for a PDF, its     *)
(* number of pages; page i of file f is the pair <<f.name, i>>, and a      *)
(* document is the sequence of its pages.  A Map is a function whose       *)
(* domain is its key set; a key is a number or a string.                   *)
(***************************************************************************)

\* Bounds of the model.
MaxPages == 2
MaxMergeItems == 3
MaxClock == 5
RandomSteps == 2

\* Date.now() when the page is opened, in the model's milliseconds.
ClockStart == 4

PdfType == "application/pdf"

\* `size` is file.size, in bytes.
FileA == [name |-> "A", type |-> PdfType, numPages |-> MaxPages, size |-> 524288]
FileB == [name |-> "B", type |-> PdfType, numPages |-> 1, size |-> 1000]
FileN == [name |-> "N", type |-> "image/png", numPages |-> 0, size |-> 2000]

AnyFiles == {FileA, FileB, FileN}
NoFile == [name |-> "", type |-> "", numPages |-> 0, size |-> 0]

\* The files the user drops on the panel of a tool.
FilesFor(tool) == IF tool \in {"merge", "delete", "extract"} THEN AnyFiles ELSE {FileA, FileN}

FileNamed(n) == CHOOSE f \in AnyFiles : f.name = n

\* The pages of a PDF file, as PDFLib.PDFDocument.load(...) yields them.
Pages(f) == [i \in 1..f.numPages |-> <<f.name, i>>]

\* The tools that have a button [data-tool] and a panel; NoSuchTool has neither.
Tools == {"merge", "rotate", "reorder", "delete", "extract", "split", "add"}
PageTools == {"rotate", "reorder", "delete", "extract"}
NoSuchTool == "nosuch"

\* ---- Map ----
NumKey(n) == [num |-> n, str |-> ""]
StrKey(str) == [num |-> 0, str |-> str]
EmptyMap == <<>>
MapHas(m, k) == k \in DOMAIN m
MapSet(m, k, v) == [x \in (DOMAIN m) \cup {k} |-> IF x = k THEN v ELSE m[x]]
MapDelete(m, k) == [x \in (DOMAIN m) \ {k} |-> m[x]]
MapSize(m) == Cardinality(DOMAIN m)

\* ---- number <-> string ----
Digit(d) == 48 + d

RECURSIVE NumberToString(_)
\* String(n) for a natural number: its decimal digits.
NumberToString(n) ==
    IF n < 10 THEN <<Digit(n)>>
    ELSE Append(NumberToString(n \div 10), Digit(n % 10))

RECURSIVE parseFloat(_)
\* parseFloat of a string of decimal digits.
parseFloat(str) ==
    IF str = <<>> THEN 0
    ELSE 10 * parseFloat(SubSeq(str, 1, Len(str) - 1)) + (str[Len(str)] - 48)

\* `Date.now() + Math.random()`: the clock's millisecond plus a fraction.  A
\* double near 1.7e12 has 2^-12 as its unit in the last place, so the sum
\* takes one of finitely many values per millisecond (RandomSteps of them
\* in the model); r is the step Math.random() falls in.
GeneratedId(now, r) == now * RandomSteps + r

NoCallYet == [call |-> "none", tool |-> "", threw |-> FALSE, index |-> 0,
              before |-> <<>>, nonEmpty |-> {}, file |-> NoFile]

\* The record of a call.  Events that only prepare the operations (file
\* handlers, clicks on thumbnails, drags, the first half of an operation
\* that awaits) are recorded without their name.
LastCall(c) ==
    [NoCallYet EXCEPT !.call =
        IF c \in {"handleFile", "thumbnailClick", "selectAllPagesForDeletion", "selectAllPages",
                  "invertSelection", "rotatePage", "rotateAllPages", "updatePageOrder", "dragend",
                  "await",
                  "deletePages:await"}
        THEN "event" ELSE c]

NoOutput == [toastType |-> "none", toastMsg |-> "", downloaded |-> FALSE, download |-> <<>>]

Toast(type, msg) == [NoOutput EXCEPT !.toastType = type, !.toastMsg = msg]

NotLoading == [active |-> FALSE, file |-> NoFile, next |-> 0]

InitTools ==
    /\ currentTool = "merge"
    /\ loadedPDFs = EmptyMap
    /\ selectedPages = {}
    /\ pageRotations = EmptyMap
    /\ pageOrder = <<>>
    /\ thumbs = [t \in PageTools |-> <<>>]
    /\ loading = [t \in PageTools |-> NotLoading]
    /\ mergeItems = <<>>
    /\ mergeButton = FALSE
    /\ deleting = NotLoading
    /\ clock = ClockStart
    /\ last = NoCallYet
    /\ out = NoOutput
    /\ pending = [op |-> "none", file |-> NoFile]
    /\ dragListeners = FALSE
    /\ form = [op |-> "none", method |-> "", position |-> "", value |-> <<>>, count |-> <<>>,
               filesCreated |-> -1, warnings |-> <<>>,
               file |-> NoFile, source |-> NoFile]
    /\ downloads = <<>>
    /\ stubIn = [fn |-> "none", pdfData |-> <<>>, kind |-> "", password |-> <<>>, quality |-> ""]
    /\ stubOut = [data |-> <<>>, buffer |-> <<>>, success |-> FALSE, originalSize |-> 0,
                  compressedSize |-> 0, outside |-> FALSE]

\* A file handler is suspended at an await.  The model follows one handler
\* at a time.
HandlerSuspended == \E t \in PageTools : loading[t].active

\* The four collections of the instance that are not empty.
NonEmptyFields ==
    {f \in {"loadedPDFs", "selectedPages", "pageRotations", "pageOrder"} :
        \/ f = "loadedPDFs" /\ loadedPDFs # EmptyMap
        \/ f = "selectedPages" /\ selectedPages # {}
        \/ f = "pageRotations" /\ pageRotations # EmptyMap
        \/ f = "pageOrder" /\ pageOrder # <<>>}

ClearedPageOrder_Kept == pageOrder

\* `this.pageOrder = [];` (line 135)
ClearedPageOrder == <<>>

\* resetTool(): the four collections are emptied, every .file-list and
\* .page-thumbnails container is emptied, the action buttons are hidden.
\* Handlers suspended at an await are not affected.
resetTool ==
    /\ loadedPDFs' = EmptyMap
    /\ selectedPages' = {}
    /\ pageRotations' = EmptyMap
    /\ pageOrder' = ClearedPageOrder
    /\ thumbs' = [t \in PageTools |-> <<>>]
    /\ mergeItems' = <<>>
    /\ mergeButton' = FALSE

\* switchTool(tool).  For a tool without button or panel the querySelector
\* of line 124 returns null and the method throws before line 127.
switchTool(tool) ==
    /\ last' = [LastCall("switchTool") EXCEPT !.tool = tool, !.threw = (tool \notin Tools),
                                              !.nonEmpty = NonEmptyFields]
    /\ IF tool \in Tools
       THEN currentTool' = tool /\ resetTool
       ELSE UNCHANGED <<currentTool, loadedPDFs, selectedPages, pageRotations,
                        pageOrder, thumbs, mergeItems, mergeButton>>
    /\ out' = NoOutput
    /\ UNCHANGED <<loading, deleting, clock>>
    /\ UNCHANGED notTool

\* handleRotateFile / handleReorderFile / handleDeleteFile (file), up to the
\* first await.  The drop zone belongs to the panel of the current tool.
handlePageToolFile(tool, file) ==
    /\ currentTool = tool
    /\ ~loading[tool].active
    /\ ~HandlerSuspended
    /\ last' = LastCall("handleFile")
    /\ IF file.type # PdfType
       THEN /\ out' = Toast("error", "Please select a valid PDF file")
            /\ UNCHANGED <<loadedPDFs, loading>>
       ELSE /\ loadedPDFs' = MapSet(loadedPDFs, StrKey(tool), file)
            /\ loading' = [loading EXCEPT ![tool] = [active |-> TRUE, file |-> file, next |-> 0]]
            /\ out' = NoOutput
    /\ UNCHANGED <<currentTool, selectedPages, pageRotations, pageOrder, thumbs,
                   mergeItems, mergeButton, deleting, clock>>
    /\ UNCHANGED notTool

\* The handler resumes with the parsed document: the thumbnail container is
\* emptied and shown, then thumbnails are made one page at a time; the
\* reorder handler starts pageOrder afresh and pushes each page number
\* before awaiting its thumbnail.
FileParsed(tool) ==
    /\ loading[tool].active
    /\ loading[tool].next = 0
    /\ thumbs' = [thumbs EXCEPT ![tool] = <<>>]
    /\ pageOrder' = IF tool = "reorder" THEN <<1>> ELSE pageOrder
    /\ loading' = [loading EXCEPT ![tool].next = 1]
    /\ last' = LastCall("handleFile")
    /\ out' = NoOutput
    /\ UNCHANGED <<currentTool, loadedPDFs, selectedPages, pageRotations, mergeItems,
                   mergeButton, deleting, clock>>
    /\ UNCHANGED notTool

\* The thumbnail of page loading[tool].next is appended to the container.
ThumbnailMade(tool) ==
    /\ loading[tool].active
    /\ loading[tool].next >= 1
    /\ LET i == loading[tool].next
           n == loading[tool].file.numPages
       IN  /\ thumbs' = [thumbs EXCEPT ![tool] = Append(@, i)]
           /\ IF i < n
              THEN /\ loading' = [loading EXCEPT ![tool].next = i + 1]
                   /\ pageOrder' = IF tool = "reorder" THEN Append(pageOrder, i + 1)
                                   ELSE pageOrder
              ELSE /\ loading' = [loading EXCEPT ![tool] = NotLoading]
                   /\ UNCHANGED pageOrder
           \* `this.setupDragAndDrop(thumbnailsContainer)` (line 493), after the loop
           /\ dragListeners' = (dragListeners \/ (tool = "reorder" /\ ~(i < n)))
    /\ last' = LastCall("handleFile")
    /\ out' = NoOutput
    /\ UNCHANGED <<currentTool, loadedPDFs, selectedPages, pageRotations, mergeItems,
                   mergeButton, deleting, clock>>
    /\ UNCHANGED <<pending, notSave>>

\* A click on the k-th thumbnail of a tool (the listener createPageThumbnail
\* attaches, whatever the tool): the page number is toggled in selectedPages.
\* Thumbnails and buttons are reachable in the panel of the current tool.
ThumbnailClick(tool, k) ==
    /\ currentTool = tool
    /\ k \in 1..Len(thumbs[tool])
    /\ LET pageNum == thumbs[tool][k]
       IN  selectedPages' = IF pageNum \in selectedPages
                            THEN selectedPages \ {pageNum}
                            ELSE selectedPages \cup {pageNum}
    /\ last' = LastCall("thumbnailClick")
    /\ UNCHANGED <<currentTool, loadedPDFs, pageRotations, pageOrder, thumbs, loading,
                   mergeItems, mergeButton, deleting, clock>>
    /\ out' = NoOutput
    /\ UNCHANGED notTool

\* selectAllPagesForDeletion(selected)
selectAllPagesForDeletion(selected) ==
    /\ currentTool = "delete"
    /\ thumbs["delete"] # <<>>
    /\ LET shown == {thumbs["delete"][k] : k \in 1..Len(thumbs["delete"])}
       IN  selectedPages' = IF selected THEN selectedPages \cup shown
                            ELSE selectedPages \ shown
    /\ selectedPages' # selectedPages
    /\ last' = LastCall("selectAllPagesForDeletion")
    /\ UNCHANGED <<currentTool, loadedPDFs, pageRotations, pageOrder, thumbs, loading,
                   mergeItems, mergeButton, deleting, clock>>
    /\ out' = NoOutput
    /\ UNCHANGED notTool

\* rotatePage(pageNum, degrees), from a button of the k-th rotate thumbnail.
rotatePage(k, degrees) ==
    /\ currentTool = "rotate"
    /\ k \in 1..Len(thumbs["rotate"])
    /\ LET pageNum == thumbs["rotate"][k]
           key == NumKey(pageNum)
           current == IF MapHas(pageRotations, key) THEN pageRotations[key] ELSE 0
       IN  pageRotations' = MapSet(pageRotations, key, (current + degrees + 360) % 360)
    /\ last' = LastCall("rotatePage")
    /\ UNCHANGED <<currentTool, loadedPDFs, selectedPages, pageOrder, thumbs, loading,
                   mergeItems, mergeButton, deleting, clock>>
    /\ out' = NoOutput
    /\ UNCHANGED notTool

\* A drag of the k-th reorder thumbnail one place to the right and the drop:
\* updatePageOrder reads the order of the thumbnails.
DragDrop(k) ==
    /\ currentTool = "reorder"
    /\ dragListeners
    /\ k \in 1..(Len(thumbs["reorder"]) - 1)
    /\ LET t == thumbs["reorder"]
           moved == [j \in 1..Len(t) |-> IF j = k THEN t[k + 1]
                                         ELSE IF j = k + 1 THEN t[k] ELSE t[j]]
       IN  /\ thumbs' = [thumbs EXCEPT !["reorder"] = moved]
           /\ pageOrder' = moved
    /\ last' = LastCall("updatePageOrder")
    /\ UNCHANGED <<currentTool, loadedPDFs, selectedPages, pageRotations, loading,
                   mergeItems, mergeButton, deleting, clock>>
    /\ out' = NoOutput
    /\ UNCHANGED notTool

KeepPage_Previous(i) == (i - 1) \notin selectedPages

\* `if (!this.selectedPages.has(i))` (line 901)
KeepPage(i) == i \notin selectedPages

RECURSIVE PagesToKeep(_, _)
\* The loop of lines 899-904: the zero-based indices of the pages to keep.
PagesToKeep(i, pageCount) ==
    IF i > pageCount THEN <<>>
    ELSE (IF KeepPage(i) THEN <<i - 1>> ELSE <<>>) \o PagesToKeep(i + 1, pageCount)

\* newPdf.copyPages(pdf, indices) followed by addPage of each copy.
copyPages(pdf, indices) == [j \in 1..Len(indices) |-> pdf[indices[j] + 1]]

\* deletePages(), up to its first await: the file is looked up; without one
\* `file.arrayBuffer()` throws and the catch shows the error toast.
deletePages ==
    /\ currentTool = "delete"
    /\ ~deleting.active
    /\ IF MapHas(loadedPDFs, StrKey("delete"))
       THEN /\ deleting' = [active |-> TRUE, file |-> loadedPDFs[StrKey("delete")], next |-> 0]
            /\ last' = LastCall("deletePages:await")
            /\ out' = NoOutput
       ELSE /\ out' = Toast("error", "Error deleting pages: ")
            /\ last' = [LastCall("deletePages") EXCEPT !.threw = TRUE]
            /\ UNCHANGED deleting
    /\ UNCHANGED <<currentTool, loadedPDFs, selectedPages, pageRotations, pageOrder,
                   thumbs, loading, mergeItems, mergeButton, clock>>
    /\ UNCHANGED notTool

\* deletePages() after the document is loaded (lines 899-918).
deletePagesLoaded ==
    /\ deleting.active
    /\ LET pdf == Pages(deleting.file)
           pagesToKeep == PagesToKeep(1, Len(pdf))
       IN  out' = IF pagesToKeep = <<>>
                  THEN Toast("error", "Cannot delete all pages")
                  ELSE [toastType |-> "success", toastMsg |-> "Deleted pages successfully!",
                        downloaded |-> TRUE, download |-> copyPages(pdf, pagesToKeep)]
    /\ last' = [LastCall("deletePages") EXCEPT !.file = deleting.file]
    /\ deleting' = NotLoading
    /\ UNCHANGED <<currentTool, loadedPDFs, selectedPages, pageRotations, pageOrder,
                   thumbs, loading, mergeItems, mergeButton, clock>>
    /\ UNCHANGED notTool

\* ---- extractPages ----

\* selectAllPages(selected), from the checkbox #extract-select-all.
selectAllPages(selected) ==
    /\ currentTool = "extract"
    /\ thumbs["extract"] # <<>>
    /\ LET shown == {thumbs["extract"][k] : k \in 1..Len(thumbs["extract"])}
       IN  selectedPages' = IF selected THEN selectedPages \cup shown
                            ELSE selectedPages \ shown
    /\ selectedPages' # selectedPages
    /\ last' = LastCall("selectAllPages")
    /\ out' = NoOutput
    /\ UNCHANGED <<currentTool, loadedPDFs, pageRotations, pageOrder, thumbs, loading,
                   mergeItems, mergeButton, deleting, clock>>
    /\ UNCHANGED notTool

\* invertSelection(), from the button #extract-invert.
invertSelection ==
    /\ currentTool = "extract"
    /\ thumbs["extract"] # <<>>
    /\ LET shown == {thumbs["extract"][k] : k \in 1..Len(thumbs["extract"])}
       IN  selectedPages' = (selectedPages \ shown) \cup (shown \ selectedPages)
    /\ last' = LastCall("invertSelection")
    /\ out' = NoOutput
    /\ UNCHANGED <<currentTool, loadedPDFs, pageRotations, pageOrder, thumbs, loading,
                   mergeItems, mergeButton, deleting, clock>>
    /\ UNCHANGED notTool

\* Array.from(set): the elements of a Set in insertion order, which is the
\* order the pages were selected in; any order of the elements can arise.
ArrayFrom(set) ==
    {order \in [1..Cardinality(set) -> set] : \A x \in set : \E j \in DOMAIN order : order[j] = x}

RECURSIVE SortNumeric(_)
\* array.sort((a, b) => a - b)
SortNumeric(array) ==
    IF Len(array) <= 1 THEN array
    ELSE LET least == CHOOSE j \in DOMAIN array : \A k \in DOMAIN array : array[j] <= array[k]
             rest == [k \in 1..(Len(array) - 1) |-> IF k < least THEN array[k] ELSE array[k + 1]]
         IN  <<array[least]>> \o SortNumeric(rest)

\* An operation that writes a document, suspended at an await of its try block.
NoPending == [op |-> "none", file |-> NoFile]

\* extractPages() / saveReorderedPDF(), up to the first await: the file of
\* the tool is looked up; without one `file.arrayBuffer()` throws and the
\* catch clause shows the error toast.
startSave(name, tool, message) ==
    /\ currentTool = tool
    /\ pending = NoPending
    /\ IF MapHas(loadedPDFs, StrKey(tool))
       THEN /\ pending' = [op |-> name, file |-> loadedPDFs[StrKey(tool)]]
            /\ last' = LastCall("await")
            /\ out' = NoOutput
       ELSE /\ out' = Toast("error", message)
            /\ last' = [LastCall(name) EXCEPT !.threw = TRUE]
            /\ UNCHANGED pending
    /\ UNCHANGED <<currentTool, loadedPDFs, selectedPages, pageRotations, pageOrder,
                   thumbs, loading, mergeItems, mergeButton, deleting, clock>>
    /\ UNCHANGED <<dragListeners, notSave>>

extractPages == startSave("extractPages", "extract", "Error extracting pages: ")

\* extractPages() after the document is loaded (lines 831-845).  copyPages
\* throws for an index that is no page of the document.
extractPagesLoaded ==
    /\ pending.op = "extractPages"
    /\ \E array \in ArrayFrom(selectedPages) :
          LET pdf == Pages(pending.file)
              selectedIndices == SortNumeric([j \in DOMAIN array |-> array[j] - 1])
          IN  out' = IF Len(selectedIndices) = 0
                     THEN Toast("error", "Please select pages to extract")
                     ELSE IF \E j \in DOMAIN selectedIndices : selectedIndices[j] >= Len(pdf)
                     THEN Toast("error", "Error extracting pages: ")
                     ELSE [toastType |-> "success", toastMsg |-> "Extracted pages successfully!",
                           downloaded |-> TRUE, download |-> copyPages(pdf, selectedIndices)]
    /\ last' = [LastCall("extractPages") EXCEPT !.file = pending.file]
    /\ pending' = NoPending
    /\ UNCHANGED <<currentTool, loadedPDFs, selectedPages, pageRotations, pageOrder,
                   thumbs, loading, mergeItems, mergeButton, deleting, clock>>
    /\ UNCHANGED <<dragListeners, notSave>>

\* ---- the reorder tool ----

\* A drag of the k-th reorder thumbnail one place to the right that ends
\* outside the container or is cancelled: the dragover listener has moved
\* the element, no drop event follows and updatePageOrder is not called.
DragCancelled(k) ==
    /\ currentTool = "reorder"
    /\ dragListeners
    /\ k \in 1..(Len(thumbs["reorder"]) - 1)
    /\ LET t == thumbs["reorder"]
       IN  thumbs' = [thumbs EXCEPT !["reorder"] =
                         [j \in 1..Len(t) |-> IF j = k THEN t[k + 1]
                                              ELSE IF j = k + 1 THEN t[k] ELSE t[j]]]
    /\ last' = LastCall("dragend")
    /\ out' = NoOutput
    /\ UNCHANGED <<currentTool, loadedPDFs, selectedPages, pageRotations, pageOrder, loading,
                   mergeItems, mergeButton, deleting, clock>>
    /\ UNCHANGED notTool

\* resetPageOrder(): the thumbnails are put back in the order of their page
\* numbers and updatePageOrder reads them.
resetPageOrder ==
    /\ currentTool = "reorder"
    /\ thumbs' = [thumbs EXCEPT !["reorder"] = SortNumeric(@)]
    /\ pageOrder' = thumbs'["reorder"]
    /\ last' = LastCall("resetPageOrder")
    /\ out' = NoOutput
    /\ UNCHANGED <<currentTool, loadedPDFs, selectedPages, pageRotations, loading,
                   mergeItems, mergeButton, deleting, clock>>
    /\ UNCHANGED notTool

saveReorderedPDF == startSave("saveReorderedPDF", "reorder", "Error reordering pages: ")

\* saveReorderedPDF() after the document is loaded (lines 878-887).
saveReorderedPDFLoaded ==
    /\ pending.op = "saveReorderedPDF"
    /\ LET pdf == Pages(pending.file)
           reorderedIndices == [j \in DOMAIN pageOrder |-> pageOrder[j] - 1]
       IN  out' = IF \E j \in DOMAIN reorderedIndices : reorderedIndices[j] >= Len(pdf)
                  THEN Toast("error", "Error reordering pages: ")
                  ELSE [toastType |-> "success", toastMsg |-> "Pages reordered successfully!",
                        downloaded |-> TRUE, download |-> copyPages(pdf, reorderedIndices)]
    /\ last' = [LastCall("saveReorderedPDF") EXCEPT !.file = pending.file]
    /\ pending' = NoPending
    /\ UNCHANGED <<currentTool, loadedPDFs, selectedPages, pageRotations, pageOrder,
                   thumbs, loading, mergeItems, mergeButton, deleting, clock>>
    /\ UNCHANGED <<dragListeners, notSave>>

\* ---- the rotate tool ----

\* The /Rotate entry of page i of a file, which page.getRotation() of PDFLib
\* and the viewport of pdf.js read: the first page of file A is turned by 90
\* degrees, every other page is upright.
SourceRotation(f, i) == IF f.name = "A" /\ i = 1 THEN 90 ELSE 0

RECURSIVE RotateEach(_, _, _)
\* rotatePage(pageNum, degrees) for each page number of a list, in order.
RotateEach(rotations, pageNums, degrees) ==
    IF pageNums = <<>> THEN rotations
    ELSE LET key == NumKey(Head(pageNums))
             current == IF MapHas(rotations, key) THEN rotations[key] ELSE 0
         IN  RotateEach(MapSet(rotations, key, (current + degrees + 360) % 360),
                        Tail(pageNums), degrees)

\* rotateAllPages(degrees), from #rotate-all-left and #rotate-all-right: every
\* thumbnail of #rotate-thumbnails is turned.
rotateAllPages(degrees) ==
    /\ currentTool = "rotate"
    /\ pageRotations' = RotateEach(pageRotations, thumbs["rotate"], degrees)
    /\ last' = LastCall("rotateAllPages")
    /\ UNCHANGED <<currentTool, loadedPDFs, selectedPages, pageOrder, thumbs, loading,
                   mergeItems, mergeButton, deleting, clock>>
    /\ out' = NoOutput
    /\ UNCHANGED notTool

saveRotatedPDF == startSave("saveRotatedPDF", "rotate", "Error rotating PDF: ")

\* `page.setRotation(PDFLib.degrees(rotation))` (line 860): the page's
\* /Rotate entry becomes `rotation`.
SetRotation(source, rotation) == rotation

\* The document saveRotatedPDF saves (lines 857-864): page i with its
\* rotation.  forEach visits the entries of pageRotations; an entry that is
\* not 0 sets the rotation of its page.
RotatedPages(f, rotations) ==
    [i \in 1..f.numPages |->
        LET key == NumKey(i)
        IN  <<f.name, i,
              IF MapHas(rotations, key) /\ rotations[key] # 0
              THEN SetRotation(SourceRotation(f, i), rotations[key])
              ELSE SourceRotation(f, i)>>]

\* saveRotatedPDF() after the document is loaded (lines 857-867).  getPage
\* throws for an index that is no page of the document.
saveRotatedPDFLoaded ==
    /\ pending.op = "saveRotatedPDF"
    /\ LET f == pending.file
       IN  out' = IF \E key \in DOMAIN pageRotations :
                        pageRotations[key] # 0 /\ key.num - 1 >= f.numPages
                  THEN Toast("error", "Error rotating PDF: ")
                  ELSE [toastType |-> "success", toastMsg |-> "PDF rotated successfully!",
                        downloaded |-> TRUE, download |-> RotatedPages(f, pageRotations)]
    /\ last' = [LastCall("saveRotatedPDF") EXCEPT !.file = pending.file]
    /\ pending' = NoPending
    /\ UNCHANGED <<currentTool, loadedPDFs, selectedPages, pageRotations, pageOrder,
                   thumbs, loading, mergeItems, mergeButton, deleting, clock>>
    /\ UNCHANGED <<dragListeners, notSave>>

\* The rotate tool: its panel is opened and left, a file is dropped on it,
\* pages are turned and the result is saved.
NextRotate ==
    \/ \E tool \in {"rotate", "reorder"} : switchTool(tool)
    \/ \E file \in FilesFor("rotate") : handlePageToolFile("rotate", file)
    \/ FileParsed("rotate")
    \/ ThumbnailMade("rotate")
    \/ \E k \in 1..MaxPages, degrees \in {-90, 90} : rotatePage(k, degrees)
    \/ \E degrees \in {-90, 90} : rotateAllPages(degrees)
    \/ saveRotatedPDF
    \/ saveRotatedPDFLoaded

NextTool ==
    \/ \E tool \in Tools \cup {NoSuchTool} : switchTool(tool)
    \/ \E tool \in PageTools : \E file \in FilesFor(tool) : handlePageToolFile(tool, file)
    \/ \E tool \in PageTools : FileParsed(tool)
    \/ \E tool \in PageTools : ThumbnailMade(tool)
    \/ \E tool \in PageTools, k \in 1..MaxPages : ThumbnailClick(tool, k)
    \/ \E selected \in BOOLEAN : selectAllPagesForDeletion(selected)
    \/ \E k \in 1..MaxPages, degrees \in {-90, 90} : rotatePage(k, degrees)
    \/ \E k \in 1..MaxPages : DragDrop(k)
    \/ deletePages
    \/ deletePagesLoaded
    \/ \E selected \in BOOLEAN : selectAllPages(selected)
    \/ invertSelection
    \/ extractPages
    \/ extractPagesLoaded
    \/ \E k \in 1..MaxPages : DragCancelled(k)
    \/ resetPageOrder
    \/ saveReorderedPDF
    \/ saveReorderedPDFLoaded

\* ---- the merge list ----

\* The .file-item element handleMergeFiles creates for a file: its
\* data-file-id attribute (the id as a string) and the file name it shows.
FileItem(fileId, file) == [fileId |-> NumberToString(fileId), name |-> file.name]

RECURSIVE AddMergeFiles(_, _, _, _)
\* The loop of handleMergeFiles from the k-th file on; rs[k] is the step
\* Math.random() falls in for the k-th file.  The loop has no await, so
\* Date.now() is taken to be the same for every file of one call.
AddMergeFiles(files, rs, k, st) ==
    IF k > Len(files) THEN st
    ELSE IF files[k].type # PdfType
    THEN AddMergeFiles(files, rs, k + 1, [st EXCEPT !.toast = "error"])
    ELSE LET fileId == GeneratedId(clock, rs[k])
         IN  AddMergeFiles(files, rs, k + 1,
                 [st EXCEPT !.map = MapSet(@, NumKey(fileId), files[k]),
                            !.items = Append(@, FileItem(fileId, files[k]))])

\* handleMergeFiles(files)
handleMergeFiles(files, rs) ==
    /\ currentTool = "merge"
    /\ Len(mergeItems) + Len(files) <= MaxMergeItems
    /\ LET st == AddMergeFiles(files, rs, 1,
                     [map |-> loadedPDFs, items |-> mergeItems, toast |-> "none"])
       IN  /\ loadedPDFs' = st.map
           /\ mergeItems' = st.items
           /\ mergeButton' = (mergeButton \/ MapSize(st.map) > 0)
           /\ out' = IF st.toast = "error" THEN Toast("error", "is not a PDF file")
                     ELSE NoOutput
    /\ last' = [LastCall("handleMergeFiles") EXCEPT !.before = mergeItems]
    /\ UNCHANGED <<currentTool, selectedPages, pageRotations, pageOrder, thumbs, loading,
                   deleting, clock>>
    /\ UNCHANGED notTool

\* document.querySelector(`[data-file-id="${fileId}"]`): the index of the
\* first element with that attribute value, 0 for null.
QueryFileItem(items, fileId) ==
    LET found == {i \in 1..Len(items) : items[i].fileId = fileId}
    IN  IF found = {} THEN 0 ELSE CHOOSE i \in found : \A j \in found : i <= j

SwapWithNext(items, i) ==
    [j \in 1..Len(items) |-> IF j = i THEN items[i + 1]
                             ELSE IF j = i + 1 THEN items[i] ELSE items[j]]

\* A click on the "up" button of the k-th item: moveFileUp('<its file id>').
moveFileUp(k) ==
    /\ k \in 1..Len(mergeItems)
    /\ LET i == QueryFileItem(mergeItems, mergeItems[k].fileId)
       IN  mergeItems' = IF i > 1 THEN SwapWithNext(mergeItems, i - 1) ELSE mergeItems
    /\ last' = [LastCall("moveFileUp") EXCEPT !.index = k, !.before = mergeItems]
    /\ out' = NoOutput
    /\ UNCHANGED <<currentTool, loadedPDFs, selectedPages, pageRotations, pageOrder, thumbs,
                   loading, mergeButton, deleting, clock>>
    /\ UNCHANGED notTool

\* A click on the "down" button of the k-th item: moveFileDown('<its file id>').
moveFileDown(k) ==
    /\ k \in 1..Len(mergeItems)
    /\ LET i == QueryFileItem(mergeItems, mergeItems[k].fileId)
       IN  mergeItems' = IF i < Len(mergeItems) THEN SwapWithNext(mergeItems, i)
                         ELSE mergeItems
    /\ last' = [LastCall("moveFileDown") EXCEPT !.index = k, !.before = mergeItems]
    /\ out' = NoOutput
    /\ UNCHANGED <<currentTool, loadedPDFs, selectedPages, pageRotations, pageOrder, thumbs,
                   loading, mergeButton, deleting, clock>>
    /\ UNCHANGED notTool

\* A click on the remove button of the k-th item: removeFile('<its file id>').
removeFile(k) ==
    /\ k \in 1..Len(mergeItems)
    /\ LET fileId == mergeItems[k].fileId
           i == QueryFileItem(mergeItems, fileId)
           rest == [j \in 1..(Len(mergeItems) - 1) |->
                       IF j < i THEN mergeItems[j] ELSE mergeItems[j + 1]]
       IN  /\ mergeItems' = rest
           /\ loadedPDFs' = MapDelete(loadedPDFs, NumKey(parseFloat(fileId)))
           /\ mergeButton' = (mergeButton /\ rest # <<>>)
    /\ last' = [LastCall("removeFile") EXCEPT !.index = k, !.before = mergeItems]
    /\ out' = NoOutput
    /\ UNCHANGED <<currentTool, selectedPages, pageRotations, pageOrder, thumbs, loading,
                   deleting, clock>>
    /\ UNCHANGED notTool

\* clearMergeFiles()
clearMergeFiles ==
    /\ mergeButton
    /\ mergeItems' = <<>>
    /\ loadedPDFs' = EmptyMap
    /\ mergeButton' = FALSE
    /\ last' = LastCall("clearMergeFiles")
    /\ out' = NoOutput
    /\ UNCHANGED <<currentTool, selectedPages, pageRotations, pageOrder, thumbs, loading,
                   deleting, clock>>
    /\ UNCHANGED notTool

\* `this.loadedPDFs.get(parseFloat(item.dataset.fileId))`
ItemFile(item) == loadedPDFs[NumKey(parseFloat(item.fileId))]

ItemHasFile(item) == MapHas(loadedPDFs, NumKey(parseFloat(item.fileId)))

RECURSIVE MergedPages(_, _)
\* The loop of mergePDFs (lines 673-681) from the k-th item on.
MergedPages(items, k) ==
    IF k > Len(items) THEN <<>>
    ELSE Pages(ItemFile(items[k])) \o MergedPages(items, k + 1)

\* mergePDFs(): a click on #merge-button.  An item without a file in
\* loadedPDFs makes `file.arrayBuffer()` throw, which the catch reports.
mergePDFs ==
    /\ mergeButton
    /\ IF \A k \in 1..Len(mergeItems) : ItemHasFile(mergeItems[k])
       THEN out' = [toastType |-> "success", toastMsg |-> "PDFs merged successfully!",
                    downloaded |-> TRUE, download |-> MergedPages(mergeItems, 1)]
       ELSE out' = Toast("error", "Error merging PDFs: ")
    /\ last' = [LastCall("mergePDFs") EXCEPT !.before = mergeItems]
    /\ UNCHANGED <<currentTool, loadedPDFs, selectedPages, pageRotations, pageOrder, thumbs,
                   loading, mergeItems, mergeButton, deleting, clock>>
    /\ UNCHANGED notTool

\* A millisecond passes.
Tick ==
    /\ clock < MaxClock
    /\ clock' = clock + 1
    /\ UNCHANGED <<currentTool, loadedPDFs, selectedPages, pageRotations, pageOrder, thumbs,
                   loading, mergeItems, mergeButton, deleting, last, out>>
    /\ UNCHANGED notTool

\* The files of one drop or file dialog, and the steps Math.random() falls in.
FileLists == {<<f>> : f \in AnyFiles} \cup {<<f, g>> : f \in AnyFiles, g \in AnyFiles}

NextMerge ==
    \/ \E files \in FileLists : \E rs \in [1..Len(files) -> 0..(RandomSteps - 1)] :
           handleMergeFiles(files, rs)
    \/ \E k \in 1..MaxMergeItems : moveFileUp(k)
    \/ \E k \in 1..MaxMergeItems : moveFileDown(k)
    \/ \E k \in 1..MaxMergeItems : removeFile(k)
    \/ clearMergeFiles
    \/ mergePDFs
    \/ Tick

(***************************************************************************)
(* PrivPDF: splitPDF and addPages                                          *)
(*                                                                         *)
(* The value of an input element is a string, a sequence of code points.   *)
(* A JavaScript number is a record: NaN, or Num(n) for the integer n.      *)
(***************************************************************************)

\* Bounds of the model.
MaxSplitPages == 4

FileC == [name |-> "C", type |-> PdfType, numPages |-> MaxSplitPages, size |-> 2097152]

NaN == [nan |-> TRUE, v |-> 0]
Num(n) == [nan |-> FALSE, v |-> n]

\* str.trim()
StrTrim(str) ==
    LET kept == {j \in DOMAIN str : str[j] \notin {32, 9, 10, 13}}
    IN  IF kept = {} THEN <<>>
        ELSE SubSeq(str, CHOOSE j \in kept : \A k \in kept : j <= k,
                         CHOOSE j \in kept : \A k \in kept : j >= k)

\* str.split(sep), for a separator of one character
StrSplit(str, sep) ==
    LET at == SelectSeq([j \in DOMAIN str |-> j], LAMBDA j : str[j] = sep)
        cuts == <<0>> \o at \o <<Len(str) + 1>>
    IN  [j \in 1..(Len(at) + 1) |-> SubSeq(str, cuts[j] + 1, cuts[j + 1] - 1)]

\* The value of a hexadecimal digit, or -1.
HexDigit(c) ==
    IF c \in 48..57 THEN c - 48
    ELSE IF c \in 97..102 THEN c - 87
    ELSE IF c \in 65..70 THEN c - 55
    ELSE -1

RECURSIVE DigitsValue(_, _)
\* The number a run of digits denotes in the radix.
DigitsValue(digits, radix) ==
    IF digits = <<>> THEN 0
    ELSE radix * DigitsValue(SubSeq(digits, 1, Len(digits) - 1), radix)
         + HexDigit(digits[Len(digits)])

\* The number at the start of `body` in the radix, NaN without a digit.
ParseDigits(body, radix, negative) ==
    LET stops == {j \in DOMAIN body : HexDigit(body[j]) \notin 0..(radix - 1)}
                     \cup {Len(body) + 1}
        digits == SubSeq(body, 1, (CHOOSE j \in stops : \A k \in stops : j <= k) - 1)
    IN  IF digits = <<>> THEN NaN
        ELSE IF negative THEN Num(0 - DigitsValue(digits, radix))
        ELSE Num(DigitsValue(digits, radix))

\* After the sign: hexadecimal digits follow "0x" or "0X", decimal digits
\* otherwise.
ParseUnsigned(unsigned, negative) ==
    IF Len(unsigned) >= 2 /\ unsigned[1] = 48 /\ unsigned[2] \in {120, 88}
    THEN ParseDigits(SubSeq(unsigned, 3, Len(unsigned)), 16, negative)
    ELSE ParseDigits(unsigned, 10, negative)

\* After the leading white space: an optional sign.
ParseSigned(t) ==
    IF t # <<>> /\ t[1] \in {43, 45} THEN ParseUnsigned(Tail(t), t[1] = 45)
    ELSE ParseUnsigned(t, FALSE)

\* parseInt(str) without a radix: leading white space, a sign, then the
\* longest run of decimal digits, or of hexadecimal digits after "0x" or
\* "0X"; NaN without a digit.
parseInt(str) == ParseSigned(StrTrim(str))

\* The default form: no operation has read the inputs yet.
NoForm == [op |-> "none", method |-> "", position |-> "", value |-> <<>>, count |-> <<>>,
           filesCreated |-> -1, warnings |-> <<>>,
           file |-> NoFile, source |-> NoFile]

\* handleSplitFile / handleAddBaseFile / handleAddSourceFile (file): the file
\* is stored under the key; the rest of each handler shows the settings.
handleFormFile(tool, key, file) ==
    /\ currentTool = tool
    /\ last' = LastCall("handleFile")
    /\ IF file.type # PdfType
       THEN /\ out' = Toast("error", "Please select a valid PDF file")
            /\ UNCHANGED loadedPDFs
       ELSE /\ loadedPDFs' = MapSet(loadedPDFs, StrKey(key), file)
            /\ out' = IF key = "add-source" THEN Toast("success", "Source PDF loaded successfully")
                      ELSE NoOutput
    /\ UNCHANGED <<currentTool, selectedPages, pageRotations, pageOrder, thumbs, loading,
                   mergeItems, mergeButton, deleting, clock>>
    /\ UNCHANGED <<form, downloads>>
    /\ UNCHANGED notForm

SplitFile_SkipsFirst(pdf, kind, startPage, endPage) ==
    [kind |-> kind, first |-> startPage,
     pages |-> copyPages(pdf, [j \in 1..(endPage - startPage) |-> startPage + j - 1])]

\* A file splitPDF downloads: the pages startPage..endPage of the document.
SplitFile(pdf, kind, startPage, endPage) ==
    [kind |-> kind, first |-> startPage,
     pages |-> copyPages(pdf, [j \in 1..(endPage - startPage + 1) |-> startPage - 1 + j - 1])]

RECURSIVE SplitEvery(_, _, _, _)
\* The loops of lines 724-736 and 803-814, from index i on: one file for
\* every `step` pages.
SplitEvery(pdf, kind, i, step) ==
    IF ~(i < Len(pdf)) THEN <<>>
    ELSE LET endPage == IF i + step < Len(pdf) THEN i + step ELSE Len(pdf)
         IN  <<SplitFile(pdf, kind, i + 1, endPage)>> \o SplitEvery(pdf, kind, i + step, step)

\* The start and end page of a range such as "1-3" or "5" (lines 757-763).
ParseRange(range) ==
    LET parts == StrSplit(range, 45)
    IN  IF Len(parts) > 1
        THEN [startPage |-> parseInt(StrTrim(parts[1])), endPage |-> parseInt(StrTrim(parts[2]))]
        ELSE [startPage |-> parseInt(StrTrim(range)), endPage |-> parseInt(StrTrim(range))]

InvalidRange_AllowsReversed(startPage, endPage, totalPages) ==
    \/ startPage.nan \/ endPage.nan
    \/ startPage.v < 1 \/ endPage.v > totalPages

\* The test of lines 766-768.
InvalidRange(startPage, endPage, totalPages) ==
    \/ startPage.nan \/ endPage.nan
    \/ startPage.v < 1 \/ endPage.v > totalPages
    \/ startPage.v > endPage.v

RECURSIVE SplitRanges(_, _)
\* The loop of lines 751-785 over the ranges that are left: a download and
\* filesCreated++ for each valid range, a warning toast for the others.
SplitRanges(pdf, ranges) ==
    IF ranges = <<>> THEN [files |-> <<>>, filesCreated |-> 0, warnings |-> <<>>]
    ELSE LET range == ranges[1]
             bounds == ParseRange(range)
             startPage == bounds.startPage
             endPage == bounds.endPage
             rest == SplitRanges(pdf, Tail(ranges))
         IN  IF InvalidRange(startPage, endPage, Len(pdf))
             THEN [rest EXCEPT !.warnings = <<range>> \o @]
             ELSE [rest EXCEPT
                     !.files = <<SplitFile(pdf, IF startPage = endPage THEN "page" ELSE "pages",
                                           startPage.v, endPage.v)>> \o @,
                     !.filesCreated = @ + 1]

\* `Math.max(1, Math.floor((targetSizeKB / fileSizeKB) * totalPages))` (line
\* 801).  The quotient and the product are rounded to doubles, so when the
\* exact value is an integer the floor may fall one below it.
PagesPerFile(file, totalPages) ==
    LET exact == (1024 * 1024 * totalPages) \div file.size
        below == IF (1024 * 1024 * totalPages) % file.size = 0 THEN {exact - 1} ELSE {}
    IN  {IF p < 1 THEN 1 ELSE p : p \in {exact} \cup below}

\* splitPDF().  `emptySaves` is whether PDFLib saves a document without pages
\* (the one the 'pages' loop builds when the page count is NaN) or throws.
splitPDF(method, value, emptySaves) ==
    /\ currentTool = "split"
    /\ last' = [LastCall("splitPDF") EXCEPT !.threw = ~MapHas(loadedPDFs, StrKey("split"))]
    /\ IF ~MapHas(loadedPDFs, StrKey("split"))
       THEN /\ form' = [NoForm EXCEPT !.op = "splitPDF"]
            /\ downloads' = <<>>
            /\ out' = Toast("error", "Error splitting PDF: ")
       ELSE LET file == loadedPDFs[StrKey("split")]
                pdf == Pages(file)
                totalPages == Len(pdf)
                pagesPerDoc == parseInt(value)
                read == [NoForm EXCEPT !.op = "splitPDF", !.method = method,
                                       !.value = value, !.file = file]
            IN  /\ CASE method = "single" ->
                          /\ downloads' = SplitEvery(pdf, "page", 0, 1)
                          /\ out' = Toast("success", "Split into individual pages successfully!")
                     [] method = "pages" /\ ~pagesPerDoc.nan
                                         /\ (pagesPerDoc.v <= 0 \/ pagesPerDoc.v > totalPages) ->
                          /\ downloads' = <<>>
                          /\ out' = Toast("error", "Invalid page count. Please enter a valid number.")
                     [] method = "pages" /\ ~pagesPerDoc.nan
                                         /\ ~(pagesPerDoc.v <= 0 \/ pagesPerDoc.v > totalPages) ->
                          /\ downloads' = SplitEvery(pdf, "pages", 0, pagesPerDoc.v)
                          /\ out' = Toast("success", "Split into files!")
                     [] method = "pages" /\ pagesPerDoc.nan ->
                          \* Both comparisons with NaN are false; the loop body runs
                          \* once with endPage = NaN and no index, then i = NaN.
                          IF emptySaves
                          THEN /\ downloads' = <<[kind |-> "pages", first |-> 1, pages |-> <<>>]>>
                               /\ out' = Toast("success", "Split into files!")
                          ELSE /\ downloads' = <<>>
                               /\ out' = Toast("error", "Error splitting PDF: ")
                     [] method = "range" /\ StrTrim(value) = <<>> ->
                          /\ form' = read
                          /\ downloads' = <<>>
                          /\ out' = Toast("error", "Please enter page ranges (e.g., 1-3, 4-6)")
                     [] method = "range" /\ StrTrim(value) # <<>> ->
                          LET ranges == StrSplit(value, 44)
                              split == SplitRanges(pdf,
                                          [j \in DOMAIN ranges |-> StrTrim(ranges[j])])
                          IN  /\ downloads' = split.files
                              /\ form' = [read EXCEPT !.warnings = split.warnings,
                                             !.filesCreated = IF split.filesCreated > 0
                                                              THEN split.filesCreated ELSE -1]
                              /\ out' = IF split.filesCreated > 0
                                        THEN Toast("success", "Split into files based on ranges!")
                                        ELSE Toast("error",
                                                   "No valid ranges found. Please check your input.")
                     [] method = "size" ->
                          \E pagesPerFile \in PagesPerFile(file, totalPages) :
                              /\ downloads' = SplitEvery(pdf, "part", 0, pagesPerFile)
                              /\ out' = Toast("success", "Split into files (size-balanced)!")
                     [] OTHER ->
                          /\ downloads' = <<>>
                          /\ out' = Toast("info", "Splitting PDF...")
                \* filesCreated++ follows each downloadPDF of the other loops
                /\ IF method # "range"
                   THEN form' = [read EXCEPT !.filesCreated =
                                    IF method \in {"pages", "size"} /\ out'.toastType = "success"
                                    THEN Len(downloads') ELSE -1]
                   ELSE TRUE
    /\ UNCHANGED <<currentTool, loadedPDFs, selectedPages, pageRotations, pageOrder, thumbs,
                   loading, mergeItems, mergeButton, deleting, clock>>
    /\ UNCHANGED notForm

\* What the user can type into #split-pages and #split-ranges:
\* "", "abc", "0", "-1", "1", "2", "3", " 2", "2x", "9", "1-2,4", "3-1,x", "2-", "1-2,2-3",
\* "0x2", "1-2-3", "4,,5", " ", "2 - 4".
InputValues ==
    {<<>>, <<97, 98, 99>>, <<48>>, <<45, 49>>, <<49>>, <<50>>, <<51>>, <<32, 50>>, <<50, 120>>,
     <<57>>, <<49, 45, 50, 44, 52>>, <<51, 45, 49, 44, 120>>, <<50, 45>>,
     <<49, 45, 50, 44, 50, 45, 51>>, <<48, 120, 50>>, <<49, 45, 50, 45, 51>>,
     <<52, 44, 44, 53>>, <<32>>, <<50, 32, 45, 32, 52>>}

\* ---- addPages ----

\* A page pdf.insertPage(index) creates.
BlankPage == <<"", 0>>

InsertPages_SameIndex(pdf, insertIndex, pages) ==
    SubSeq(pdf, 1, insertIndex)
        \o [j \in 1..Len(pages) |-> pages[Len(pages) + 1 - j]]
        \o SubSeq(pdf, insertIndex + 1, Len(pdf))

RECURSIVE InsertPages(_, _, _)
\* `pages.forEach((page, i) => pdf.insertPage(insertIndex + i, page))`, and
\* the loop of lines 942-944 for blank pages: the first page goes to index
\* insertIndex of the document, the next ones to insertIndex + 1 of the
\* document that results.
InsertPages(pdf, insertIndex, pages) ==
    IF pages = <<>> THEN pdf
    ELSE InsertPages(SubSeq(pdf, 1, insertIndex) \o <<pages[1]>>
                         \o SubSeq(pdf, insertIndex + 1, Len(pdf)),
                     insertIndex + 1, Tail(pages))

\* addPages().  insertPage throws for an index outside 0..pageCount; what it
\* does with NaN is PDFLib's business: `nanIndex` is the index it uses, or -1
\* when it throws.
addPages(addType, position, afterPage, blankCount, nanIndex) ==
    /\ currentTool = "add"
    /\ last' = [LastCall("addPages") EXCEPT !.threw = ~MapHas(loadedPDFs, StrKey("add-base"))]
    /\ IF ~MapHas(loadedPDFs, StrKey("add-base"))
       THEN /\ form' = [NoForm EXCEPT !.op = "addPages"]
            /\ out' = Toast("error", "Error adding pages: ")
       ELSE LET baseFile == loadedPDFs[StrKey("add-base")]
                pdf == Pages(baseFile)
                hasSource == MapHas(loadedPDFs, StrKey("add-source"))
                sourceFile == IF hasSource THEN loadedPDFs[StrKey("add-source")] ELSE NoFile
                parsedIndex == parseInt(afterPage)
                insertIndex == IF position = "start" THEN 0
                               ELSE IF position = "after"
                               THEN (IF parsedIndex.nan THEN nanIndex ELSE parsedIndex.v)
                               ELSE Len(pdf)
                count == parseInt(blankCount)
                pages == IF addType = "blank"
                         THEN [i \in 1..(IF count.nan THEN 0 ELSE count.v) |-> BlankPage]
                         ELSE Pages(sourceFile)
            IN  /\ form' = [NoForm EXCEPT !.op = "addPages", !.method = addType,
                                          !.position = position, !.value = afterPage,
                                          !.count = blankCount, !.file = baseFile,
                                          !.source = sourceFile]
                /\ out' = IF addType # "blank" /\ ~hasSource
                          THEN Toast("error", "Please select a source PDF")
                          ELSE IF pages # <<>> /\ insertIndex \notin 0..Len(pdf)
                          THEN Toast("error", "Error adding pages: ")
                          ELSE [toastType |-> "success", toastMsg |-> "Pages added successfully!",
                                downloaded |-> TRUE,
                                download |-> IF pages = <<>> THEN pdf
                                             ELSE InsertPages(pdf, insertIndex, pages)]
    /\ downloads' = <<>>
    /\ UNCHANGED <<currentTool, loadedPDFs, selectedPages, pageRotations, pageOrder, thumbs,
                   loading, mergeItems, mergeButton, deleting, clock>>
    /\ UNCHANGED notForm

NextForms ==
    \/ \E tool \in {"split", "add"} : switchTool(tool)
    \/ \E file \in {FileC, FileN} : handleFormFile("split", "split", file)
    \/ \E method \in {"single", "pages", "range", "size", ""} :
          \E value \in InputValues : \E emptySaves \in BOOLEAN :
             splitPDF(method, value, emptySaves)
    \/ \E file \in {FileC, FileN} : handleFormFile("add", "add-base", file)
    \/ \E file \in {FileA, FileN} : handleFormFile("add", "add-source", file)
    \/ \E addType \in {"blank", "pdf"}, position \in {"start", "after", "end"} :
          \* "", "0", "1", "9" for #add-after-page; "", "2", "-1" for #add-blank-count
          \E afterPage \in {<<>>, <<48>>, <<49>>, <<57>>}, blankCount \in {<<>>, <<50>>, <<45, 49>>} :
             \E nanIndex \in {-1, 0, 1} :
                addPages(addType, position, afterPage, blankCount, nanIndex)

(***************************************************************************)
(* The fallback stubs: the mock QPDF of QPDFEncryption (src/unnamed/       *)
(* part_001) and mockCompression of GhostscriptWASM.                       *)
(***************************************************************************)

\* Bounds of the model: the longest input of mockCompression.  Each stub is
\* followed from one call on fresh arguments.
MaxDataLen == 1300

\* `new Uint8Array(256)` (part_001, line 104); the 1024 bytes of header and
\* footer simulateCompression keeps (ghostscript-wasm.js, lines 249-250).
KeyLen == 256
HeaderLen == 1024

RECURSIVE BitXor(_, _)
\* a ^ b, for non-negative integers
BitXor(a, b) ==
    IF a = 0 THEN b
    ELSE IF b = 0 THEN a
    ELSE ((a + b) % 2) + 2 * BitXor(a \div 2, b \div 2)

\* "default"
DefaultPassword == <<100, 101, 102, 97, 117, 108, 116>>

\* generateKey(password): key[i] = data[i % data.length] ^ (i * 17), stored in
\* a Uint8Array.  For an empty password data[NaN] is undefined, and
\* undefined ^ x is x.  Index k of the model is offset k - 1.
generateKey(password) ==
    LET data == Utf8Encode(password)
    IN  [k \in 1..KeyLen |->
            (IF data = <<>> THEN (k - 1) * 17
             ELSE BitXor(data[((k - 1) % Len(data)) + 1], (k - 1) * 17)) % 256]

MockKeyPassword_AsGiven(userPassword) == userPassword

\* `options.userPassword || 'default'` (part_001, line 87)
MockKeyPassword(userPassword) ==
    IF userPassword = <<>> THEN DefaultPassword ELSE userPassword

\* The `encrypt` of createMockQPDF, on the bytes of pdfData.
MockXor(pdfData, userPassword) ==
    LET key == generateKey(MockKeyPassword(userPassword))
    IN  [k \in 1..Len(pdfData) |-> BitXor(pdfData[k], key[((k - 1) % Len(key)) + 1])]

\* qpdf.encrypt(pdfData, {userPassword}) on the mock.  `new Uint8Array(pdfData)`
\* copies a Uint8Array and is a view of the caller's buffer when pdfData is
\* an ArrayBuffer: the loop then writes into the caller's bytes.
mockEncrypt(pdfData, kind, userPassword) ==
    /\ stubIn.fn = "none"
    /\ stubIn' = [fn |-> "encrypt", pdfData |-> pdfData, kind |-> kind,
                  password |-> userPassword, quality |-> ""]
    /\ LET encrypted == MockXor(pdfData, userPassword)
       IN  stubOut' = [data |-> encrypted,
                       buffer |-> IF kind = "ArrayBuffer" THEN encrypted ELSE pdfData,
                       success |-> TRUE, originalSize |-> 0, compressedSize |-> 0,
                       outside |-> FALSE]
    /\ UNCHANGED notStub

\* qpdf.encrypt applied to the Uint8Array the previous call returned, with
\* the same password.
mockEncryptAgain ==
    /\ stubIn.fn = "encrypt"
    /\ stubIn' = [stubIn EXCEPT !.fn = "encrypt twice"]
    /\ stubOut' = [stubOut EXCEPT !.data = MockXor(stubOut.data, stubIn.password)]
    /\ UNCHANGED notStub

getCompressionRatio_Ebook(quality) == <<1, 2>>

\* getCompressionRatio(quality), as a fraction <<numerator, denominator>>;
\* <<0, 0>> stands for a value that is no number: `ratios[quality]` is a
\* function of Object.prototype for a quality such as 'constructor'.
getCompressionRatio(quality) ==
    CASE quality = "screen" -> <<3, 10>>
      [] quality = "ebook" -> <<1, 2>>
      [] quality = "printer" -> <<7, 10>>
      [] quality = "prepress" -> <<17, 20>>
      [] quality \in {"constructor", "toString"} -> <<0, 0>>
      [] OTHER -> <<1, 2>>

RECURSIVE PowerOfTwoBelow(_)
\* The largest power of two that is at most x, for x >= 1.
PowerOfTwoBelow(x) == IF x < 2 THEN 1 ELSE 2 * PowerOfTwoBelow(x \div 2)

\* `Math.floor(pdfData.byteLength * ratio)` (line 252), in double arithmetic.
\* 0.5 is a double and the product is exact.  The doubles nearest to 0.3,
\* 0.7 and 0.85 lie below them by 0.2 * 2^-54, 0.4 * 2^-53 and 0.2 * 2^-53;
\* the product is rounded to the nearest double, and it is rounded to a
\* double below an integer value x = n * r only if that error times n
\* exceeds half a unit in the last place of x: for 0.7 when
\* x > 1.75 * 2^k with 2^k <= x < 2^(k+1), for 0.3 and 0.85 never.
\* A ratio that is no number gives NaN, and `new Uint8Array(NaN)` is empty.
TargetSize(byteLength, ratio) ==
    IF ratio[2] = 0 THEN 0
    ELSE LET exact == (byteLength * ratio[1]) \div ratio[2]
             whole == (byteLength * ratio[1]) % ratio[2] = 0
         IN  IF ratio = <<7, 10>> /\ whole /\ exact >= 1
                  /\ 4 * exact > 7 * PowerOfTwoBelow(exact)
             THEN exact - 1 ELSE exact

\* mockCompression(pdfData, quality, ...): after the progress steps,
\* simulateCompression (lines 244-264) and the result record.  `outside` is
\* whether a `set` would write past the end of simulatedData (a RangeError).
mockCompression(pdfData, quality) ==
    /\ stubIn.fn = "none"
    /\ stubIn' = [fn |-> "mockCompression", pdfData |-> pdfData, kind |-> "ArrayBuffer",
                  password |-> <<>>, quality |-> quality]
    /\ LET byteLength == Len(pdfData)
           ratio == getCompressionRatio(quality)
           kept == IF HeaderLen < byteLength THEN HeaderLen ELSE byteLength
           header == SubSeq(pdfData, 1, kept)
           footer == SubSeq(pdfData, byteLength - kept + 1, byteLength)
           targetSize == TargetSize(byteLength, ratio)
           \* Math.min(header.length, targetSize / 2), truncated by slice
           headLen == IF ratio[2] = 0 THEN 0
                      ELSE IF 2 * Len(header) < targetSize THEN Len(header)
                      ELSE targetSize \div 2
           head == SubSeq(header, 1, headLen)
           withFooter == ratio[2] # 0 /\ targetSize > Len(footer)
           offset == targetSize - Len(footer)
           withHeader == SetAt(Zeros(targetSize), head, 0)
           simulatedData == IF withFooter THEN SetAt(withHeader, footer, offset)
                            ELSE withHeader
       IN  stubOut' = [data |-> simulatedData, buffer |-> pdfData, success |-> TRUE,
                       originalSize |-> byteLength,
                       compressedSize |-> Len(simulatedData),
                       outside |-> \/ Len(head) > targetSize
                                   \/ withFooter /\ (offset < 0 \/ offset + Len(footer) > targetSize)]
    /\ UNCHANGED notStub

NextStubs ==
    \/ \E n \in {0, 1, 2, KeyLen + 2}, start \in {7, 200} :
          \E kind \in {"Uint8Array", "ArrayBuffer"}, userPassword \in Passwords :
             mockEncrypt(Ramp(n, start, 13), kind, userPassword)
    \/ mockEncryptAgain
    \/ \E n \in {0, 1, 3, 10, 90, MaxDataLen} :
          \E quality \in {"screen", "ebook", "printer", "prepress", "best", "constructor"} :
             mockCompression(Ramp(n, 1, 1), quality)

-----------------------------------------------------------------------------
(***************************************************************************)
(* QPDFEncryption and PDFProtection.protectWithQPDF                        *)
(***************************************************************************)

\* Bounds of the model: the QPDFEncryption objects constructed and the calls
\* followed.
MaxInstances == 3
MaxQpdfCalls == 2

QCalls == 1..MaxQpdfCalls

\* The PDF bytes and the user passwords the calls are made with.
QpdfInputs == {Ramp(2, 37, 43)}
QpdfPasswords == {<<>>, <<97>>}

\* new QPDFEncryption() (part_001, lines 5-9); `loader` is where the
\* _loadQPDF run of the object is suspended.
NewInstance ==
    [status |-> "not-loaded", qpdf |-> "null", loadPromise |-> "none", loader |-> "idle"]

NoResult ==
    [success |-> FALSE, data |-> <<>>, producer |-> "none", isRealEncryption |-> FALSE,
     method |-> "", note |-> ""]

\* A call that has not been made.  `inst` is the object the running
\* loadModule or encryptPDF was called on, `role` whether that loadModule
\* awaits the promise it created ("own") or returned this.loadPromise
\* ("promise"), `settled` the state of the promise the call is suspended on;
\* the fields from `unavailable` on are history.
NoQCall ==
    [kind |-> "none", pc |-> "idle", inst |-> 0, role |-> "none", settled |-> "pending",
     pdfData |-> <<>>, userPassword |-> <<>>, producer |-> "none",
     unavailable |-> FALSE, loadFailed |-> FALSE, encryptFailed |-> FALSE,
     libArgs |-> <<>>, libFailed |-> FALSE, out |-> NoResult]

InitQpdf ==
    /\ windowQPDFEncryption = FALSE
    /\ ctorInit = "notStarted"
    /\ qpdfEncryption = 0
    /\ instances = <<>>
    /\ qcalls = [c \in QCalls |-> NoQCall]

\* loadModule(progressCallback) on instance i, up to its first await: the
\* instances afterwards and what the caller is suspended on.  _loadQPDF runs
\* synchronously to the timer of line 62; a progressCallback that throws
\* does so at line 31 and again in the catch at line 76, which rejects
\* loadPromise.
loadModule(insts, i, throwsCb) ==
    LET q == insts[i]
    IN  IF q.status = "ready"
        THEN [instances |-> insts, role |-> "none", settled |-> "fulfilled"]
        ELSE IF q.status = "loading"
        THEN [instances |-> insts, role |-> "promise", settled |-> q.loadPromise]
        ELSE IF throwsCb
        THEN [instances |-> [insts EXCEPT ![i].status = "loading",
                                          ![i].loadPromise = "rejected"],
              role |-> "own", settled |-> "rejected"]
        ELSE [instances |-> [insts EXCEPT ![i].status = "loading",
                                          ![i].loadPromise = "pending",
                                          ![i].loader = "timer"],
              role |-> "own", settled |-> "pending"]

\* The calls are numbered in the order they are made.
NextCall(c) == qcalls[c].kind = "none" /\ \A d \in QCalls : d < c => qcalls[d].kind # "none"

\* A caller suspended in loadModule on instance i.
Suspended(call, i, atPc) ==
    [call EXCEPT !.pc = atPc, !.inst = i]

\* _loadQPDF of instance i returns true with this.qpdf = q: loadPromise is
\* fulfilled for every call suspended on it.
LoadFulfils(i, q) ==
    /\ instances' = [instances EXCEPT ![i].qpdf = q, ![i].loadPromise = "fulfilled",
                                      ![i].loader = "idle"]
    /\ qcalls' = [c \in QCalls |->
                    IF /\ qcalls[c].pc \in {"loadModule", "encryptPDF:loadModule"}
                       /\ qcalls[c].inst = i
                       /\ qcalls[c].settled = "pending"
                    THEN [qcalls[c] EXCEPT !.settled = "fulfilled"]
                    ELSE qcalls[c]]

\* The 500 ms timer of _loadQPDF (line 62) fires: window.initQPDFModule is
\* called if the module script has defined it; otherwise line 69 throws and
\* the catch installs the mock.
LoaderTimer(i, found) ==
    /\ i \in DOMAIN instances
    /\ instances[i].loader = "timer"
    /\ IF found
       THEN /\ instances' = [instances EXCEPT ![i].loader = "initQPDFModule"]
            /\ UNCHANGED qcalls
       ELSE LoadFulfils(i, "mock")
    /\ UNCHANGED <<windowQPDFEncryption, ctorInit, qpdfEncryption, notQpdf>>

\* window.initQPDFModule() settles (line 65): with a module that has an
\* `encrypt` method, with one that has none, or with a rejection, after
\* which the catch installs the mock.
LoaderInit(i, outcome) ==
    /\ i \in DOMAIN instances
    /\ instances[i].loader = "initQPDFModule"
    /\ LoadFulfils(i, CASE outcome = "module" -> "real"
                        [] outcome = "module without encrypt" -> "bare"
                        [] OTHER -> "mock")
    /\ UNCHANGED <<windowQPDFEncryption, ctorInit, qpdfEncryption, notQpdf>>

\* The PDFProtection constructor (part_000, lines 97-103) and its initQPDF()
\* call to the first await: with window.QPDFEncryption defined the object is
\* constructed at once, otherwise a script element is added and awaited.
PDFProtectionConstructor(defined) ==
    /\ ctorInit = "notStarted"
    /\ windowQPDFEncryption' = defined
    /\ IF defined
       THEN /\ instances' = Append(instances, NewInstance)
            /\ qpdfEncryption' = Len(instances) + 1
            /\ ctorInit' = "done"
       ELSE /\ ctorInit' = "waiting"
            /\ UNCHANGED <<instances, qpdfEncryption>>
    /\ UNCHANGED <<qcalls, notQpdf>>

\* onload or onerror of the script element an initQPDF run added (lines
\* 114-117), and the rest of that run: who = 0 is the run of the
\* constructor, otherwise the run of a protectWithQPDF call.
ScriptSettles(who, defines) ==
    /\ IF who = 0 THEN ctorInit = "waiting"
       ELSE /\ who \in QCalls
            /\ qcalls[who].pc = "initQPDF"
            /\ qcalls[who].settled = "pending"
    /\ Len(instances) < MaxInstances
    /\ windowQPDFEncryption' = (windowQPDFEncryption \/ defines)
    /\ IF windowQPDFEncryption'
       THEN /\ instances' = Append(instances, NewInstance)
            /\ qpdfEncryption' = Len(instances) + 1
       ELSE UNCHANGED <<instances, qpdfEncryption>>
    /\ IF who = 0
       THEN ctorInit' = "done" /\ UNCHANGED qcalls
       ELSE /\ qcalls' = [qcalls EXCEPT ![who].settled = "fulfilled"]
            /\ UNCHANGED ctorInit
    /\ UNCHANGED notQpdf

\* encryptPDF from line 141 on, for the instance q it was called on: the
\* `encrypt` of this.qpdf is called when there is one, fallbackEncryption
\* otherwise.
Encrypt(call, q) ==
    IF q.qpdf \in {"mock", "real"}
    THEN [call EXCEPT !.pc = "qpdf.encrypt", !.producer = q.qpdf]
    ELSE [call EXCEPT !.pc = "fallbackEncryption", !.producer = "pdf-lib"]

\* encryptPDF(pdfData, options) on instance i, to its first await.
EncryptPDFCall(call, insts, i) ==
    IF insts[i].status # "ready"
    THEN LET load == loadModule(insts, i, FALSE)
         IN  [instances |-> load.instances,
              call |-> [Suspended(call, i, "encryptPDF:loadModule")
                           EXCEPT !.role = load.role, !.settled = load.settled]]
    ELSE [instances |-> insts, call |-> Encrypt([call EXCEPT !.inst = i], insts[i])]

ProtectCatch_Rethrows(call, failed) ==
    [call EXCEPT !.pc = "threw", !.loadFailed = @ \/ failed = "loadModule",
                 !.encryptFailed = @ \/ failed = "encryptPDF"]

\* The catch of protectWithQPDF (part_000, lines 209-213), and the fallback
\* of line 177: protectWithPDFLib(pdfData, options) is called.
ProtectCatch(call, failed) ==
    [call EXCEPT !.pc = "protectWithPDFLib",
                 !.unavailable = @ \/ failed = "unavailable",
                 !.loadFailed = @ \/ failed = "loadModule",
                 !.encryptFailed = @ \/ failed = "encryptPDF",
                 !.libArgs = <<call.pdfData, call.userPassword>>]

\* protectWithQPDF from line 181 on: loadModule with the logging callback on
\* this.qpdfEncryption.
ProtectLoad(call, insts, i) ==
    LET load == loadModule(insts, i, FALSE)
    IN  [instances |-> load.instances,
         call |-> [Suspended(call, i, "loadModule")
                      EXCEPT !.role = load.role, !.settled = load.settled]]

\* protectWithQPDF(pdfData, options), to its first await.
protectWithQPDF(c, pdfData, userPassword) ==
    /\ ctorInit # "notStarted"
    /\ NextCall(c)
    /\ LET call == [NoQCall EXCEPT !.kind = "protectWithQPDF", !.pdfData = pdfData,
                                   !.userPassword = userPassword]
       IN  IF qpdfEncryption = 0
           THEN \* await this.initQPDF()
                IF windowQPDFEncryption
                THEN /\ Len(instances) < MaxInstances
                     /\ instances' = Append(instances, NewInstance)
                     /\ qpdfEncryption' = Len(instances) + 1
                     /\ qcalls' = [qcalls EXCEPT ![c] =
                                      [call EXCEPT !.pc = "initQPDF", !.settled = "fulfilled"]]
                ELSE /\ qcalls' = [qcalls EXCEPT ![c] = [call EXCEPT !.pc = "initQPDF"]]
                     /\ UNCHANGED <<instances, qpdfEncryption>>
           ELSE LET started == ProtectLoad(call, instances, qpdfEncryption)
                IN  /\ instances' = started.instances
                    /\ qcalls' = [qcalls EXCEPT ![c] = started.call]
                    /\ UNCHANGED qpdfEncryption
    /\ UNCHANGED <<windowQPDFEncryption, ctorInit, notQpdf>>

\* protectWithQPDF after `await this.initQPDF()` (lines 175-179).
InitResumes(c) ==
    /\ qcalls[c].pc = "initQPDF"
    /\ qcalls[c].settled = "fulfilled"
    /\ IF qpdfEncryption = 0
       THEN /\ qcalls' = [qcalls EXCEPT ![c] = ProtectCatch(qcalls[c], "unavailable")]
            /\ UNCHANGED instances
       ELSE LET started == ProtectLoad(qcalls[c], instances, qpdfEncryption)
            IN  /\ instances' = started.instances
                /\ qcalls' = [qcalls EXCEPT ![c] = started.call]
    /\ UNCHANGED <<windowQPDFEncryption, ctorInit, qpdfEncryption, notQpdf>>

\* A call of loadModule(progressCallback) on this.qpdfEncryption by another
\* client of the object.
loadModuleCall(c, throwsCb) ==
    /\ qpdfEncryption # 0
    /\ NextCall(c)
    /\ LET load == loadModule(instances, qpdfEncryption, throwsCb)
       IN  /\ instances' = load.instances
           /\ qcalls' = [qcalls EXCEPT ![c] =
                            [Suspended([NoQCall EXCEPT !.kind = "loadModule"],
                                       qpdfEncryption, "loadModule")
                                EXCEPT !.role = load.role, !.settled = load.settled]]
    /\ UNCHANGED <<windowQPDFEncryption, ctorInit, qpdfEncryption, notQpdf>>

\* A call of encryptPDF(pdfData, {userPassword}) on this.qpdfEncryption.
encryptPDF(c, pdfData, userPassword) ==
    /\ qpdfEncryption # 0
    /\ NextCall(c)
    /\ LET call == [NoQCall EXCEPT !.kind = "encryptPDF", !.pdfData = pdfData,
                                   !.userPassword = userPassword]
           started == EncryptPDFCall(call, instances, qpdfEncryption)
       IN  /\ instances' = started.instances
           /\ qcalls' = [qcalls EXCEPT ![c] = started.call]
    /\ UNCHANGED <<windowQPDFEncryption, ctorInit, qpdfEncryption, notQpdf>>

\* encryptPDF throws 'Failed to encrypt PDF: ...' (lines 160-163).
EncryptPDFThrows(call) ==
    IF call.kind = "protectWithQPDF" THEN ProtectCatch(call, "encryptPDF")
    ELSE [call EXCEPT !.pc = "threw", !.encryptFailed = TRUE]

\* loadModule after its await (lines 20-26) and the caller after its own:
\* the call that created the promise sets the status; loadModule returns
\* true or throws, and its caller goes on.
LoadResumes(c) ==
    LET call == qcalls[c]
        i == call.inst
        ok == call.settled = "fulfilled"
        insts == IF call.role = "own"
                 THEN [instances EXCEPT ![i].status = IF ok THEN "ready" ELSE "error"]
                 ELSE instances
    IN  /\ call.pc \in {"loadModule", "encryptPDF:loadModule"}
        /\ call.settled # "pending"
        /\ CASE call.kind = "loadModule" ->
                  /\ instances' = insts
                  /\ qcalls' = [qcalls EXCEPT ![c] =
                                   [call EXCEPT !.pc = IF ok THEN "returned" ELSE "threw",
                                                !.loadFailed = ~ok]]
             [] call.pc = "encryptPDF:loadModule" ->
                  /\ instances' = insts
                  /\ qcalls' = [qcalls EXCEPT ![c] =
                                   IF ok THEN Encrypt(call, insts[i])
                                   ELSE EncryptPDFThrows(call)]
             [] OTHER ->
                  \* protectWithQPDF, lines 187-192
                  IF ok
                  THEN LET started == EncryptPDFCall(call, insts, qpdfEncryption)
                       IN  /\ instances' = started.instances
                           /\ qcalls' = [qcalls EXCEPT ![c] = started.call]
                  ELSE /\ instances' = insts
                       /\ qcalls' = [qcalls EXCEPT ![c] = ProtectCatch(call, "loadModule")]
        /\ UNCHANGED <<windowQPDFEncryption, ctorInit, qpdfEncryption, notQpdf>>

\* What encryptPDF returns and, for protectWithQPDF, what it builds from it
\* (part_001, lines 149-154 and 207-213; part_000, lines 194-206).
Protected(call, result) ==
    IF call.kind = "protectWithQPDF"
    THEN [call EXCEPT !.pc = "returned",
                      !.out = [result EXCEPT
                                  !.note = IF result.isRealEncryption
                                           THEN "Real password protection applied - requires password to open in any PDF viewer"
                                           ELSE result.note]]
    ELSE [call EXCEPT !.pc = "returned", !.out = result]

\* The bytes a QPDF module and pdf-lib return are not determined by this
\* repository.
QpdfOutput == <<37, 80, 68, 70>>
PdfLibOutput == <<37, 80, 68, 70, 45>>

\* this.qpdf.encrypt(pdfBytes, ...) settles (line 142).  The mock returns
\* the XORed bytes; a real module returns or rejects.
EncryptSettles(c, ok) ==
    LET call == qcalls[c]
    IN  /\ call.pc = "qpdf.encrypt"
        /\ call.producer = "mock" => ok
        /\ qcalls' = [qcalls EXCEPT ![c] =
              IF ok
              THEN Protected(call,
                      [success |-> TRUE,
                       data |-> IF call.producer = "mock"
                                THEN MockXor(call.pdfData, call.userPassword)
                                ELSE QpdfOutput,
                       producer |-> call.producer,
                       isRealEncryption |-> TRUE,
                       method |-> "QPDF AES-256 Encryption",
                       note |-> ""])
              ELSE EncryptPDFThrows(call)]
        /\ UNCHANGED <<windowQPDFEncryption, ctorInit, qpdfEncryption, instances, notQpdf>>

\* fallbackEncryption settles (lines 167-218): it returns the document
\* pdf-lib saved, or throws 'Fallback encryption failed: ...'.
FallbackSettles(c, ok) ==
    LET call == qcalls[c]
    IN  /\ call.pc = "fallbackEncryption"
        /\ qcalls' = [qcalls EXCEPT ![c] =
              IF ok
              THEN Protected(call,
                      [success |-> TRUE, data |-> PdfLibOutput, producer |-> "pdf-lib",
                       isRealEncryption |-> FALSE,
                       method |-> "Fallback Protection (Watermark)",
                       note |-> "Real password protection requires QPDF WASM. Using watermark protection as fallback."])
              ELSE EncryptPDFThrows(call)]
        /\ UNCHANGED <<windowQPDFEncryption, ctorInit, qpdfEncryption, instances, notQpdf>>

\* protectWithPDFLib settles (part_000, lines 334-399): protectWithQPDF
\* returns its result or throws its error.
PDFLibSettles(c, ok) ==
    LET call == qcalls[c]
    IN  /\ call.pc = "protectWithPDFLib"
        /\ qcalls' = [qcalls EXCEPT ![c] =
              IF ok
              THEN [call EXCEPT !.pc = "returned",
                       !.out = [success |-> TRUE, data |-> PdfLibOutput,
                                producer |-> "protectWithPDFLib",
                                isRealEncryption |-> FALSE,
                                method |-> IF call.libArgs[2] # <<>>
                                           THEN "PDF-lib Protection (Password + Watermark)"
                                           ELSE "PDF-lib Protection (Watermark + Metadata)",
                                note |-> IF call.libArgs[2] # <<>>
                                         THEN "PDF protected with password and watermark - may require PDF-lib encryption support"
                                         ELSE "Limited protection - adds watermark and security metadata"]]
              ELSE [call EXCEPT !.pc = "threw", !.libFailed = TRUE]]
        /\ UNCHANGED <<windowQPDFEncryption, ctorInit, qpdfEncryption, instances, notQpdf>>

NextQpdf ==
    \/ \E defined \in BOOLEAN : PDFProtectionConstructor(defined)
    \/ \E who \in {0} \cup QCalls, defines \in BOOLEAN : ScriptSettles(who, defines)
    \/ \E c \in QCalls, pdfData \in QpdfInputs, userPassword \in QpdfPasswords :
          protectWithQPDF(c, pdfData, userPassword)
    \/ \E c \in QCalls : InitResumes(c)
    \/ \E c \in QCalls, throwsCb \in BOOLEAN : loadModuleCall(c, throwsCb)
    \/ \E c \in QCalls, pdfData \in QpdfInputs, userPassword \in QpdfPasswords :
          encryptPDF(c, pdfData, userPassword)
    \/ \E i \in 1..MaxInstances, found \in BOOLEAN : LoaderTimer(i, found)
    \/ \E i \in 1..MaxInstances,
          outcome \in {"module", "module without encrypt", "rejected"} : LoaderInit(i, outcome)
    \/ \E c \in QCalls : LoadResumes(c)
    \/ \E c \in QCalls, ok \in BOOLEAN : EncryptSettles(c, ok)
    \/ \E c \in QCalls, ok \in BOOLEAN : FallbackSettles(c, ok)
    \/ \E c \in QCalls, ok \in BOOLEAN : PDFLibSettles(c, ok)

-----------------------------------------------------------------------------
(***************************************************************************)
(* The single-document viewer (the script at the end of part_000)          *)
(***************************************************************************)

\* Bounds of the model: the pages of a document and the loading tasks in
\* flight.
MaxViewerPages == 4
MaxViewerLoads == 2

\* `let pdfDoc = null; let pageNum = 1; let currentRotation = 0;` (lines 672-674)
InitViewer ==
    /\ pdfDoc = 0
    /\ viewerPageNum = 1
    /\ currentRotation = 0
    /\ viewerLoads = <<>>
    /\ viewerOp = [name |-> "none", pages |-> 0]
    /\ viewerLast = "none"

\* loadPDF(data), to the return of getDocument: a loading task for a document
\* of `pages` pages.
loadPDF(loads, pages, from) == Append(loads, [pages |-> pages, from |-> from])

\* The change handler of #pdfInput and reader.onload (lines 682-700), for a
\* PDF of `pages` pages.
pdfInputChange(pages) ==
    /\ Len(viewerLoads) < MaxViewerLoads
    /\ viewerLoads' = loadPDF(viewerLoads, pages, "file")
    /\ viewerLast' = "pdfInput"
    /\ UNCHANGED <<pdfDoc, viewerPageNum, currentRotation, viewerOp, notViewer>>

\* `pageNum = 1` in the callback of loadPDF (line 706)
Installed(task) == 1

\* loadingTask.promise is fulfilled (lines 704-709): the k-th task in flight
\* installs its document.
LoadInstalls(k) ==
    /\ k \in DOMAIN viewerLoads
    /\ pdfDoc' = viewerLoads[k].pages
    /\ viewerPageNum' = Installed(viewerLoads[k])
    /\ currentRotation' = 0
    /\ viewerLoads' = [j \in 1..(Len(viewerLoads) - 1) |->
                          IF j < k THEN viewerLoads[j] ELSE viewerLoads[j + 1]]
    /\ viewerLast' = IF viewerLoads[k].from = "addPage" THEN "addPage:installed"
                     ELSE "file:installed"
    /\ UNCHANGED <<viewerOp, notViewer>>

\* addPage() to its first await (lines 778-785).
addPage ==
    /\ viewerOp.name = "none"
    /\ IF pdfDoc = 0
       THEN viewerLast' = "No document loaded." /\ UNCHANGED viewerOp
       ELSE /\ viewerOp' = [name |-> "addPage", pages |-> pdfDoc]
            /\ viewerLast' = "addPage"
    /\ UNCHANGED <<pdfDoc, viewerPageNum, currentRotation, viewerLoads, notViewer>>

\* addPage() after pdfLibDoc.save() (lines 794-803): the document with one
\* more page is handed to loadPDF and pageNum is set to its page count.
addPageSaved ==
    /\ viewerOp.name = "addPage"
    /\ Len(viewerLoads) < MaxViewerLoads
    /\ viewerOp.pages < MaxViewerPages
    /\ viewerLoads' = loadPDF(viewerLoads, viewerOp.pages + 1, "addPage")
    /\ viewerPageNum' = viewerOp.pages + 1
    /\ viewerOp' = [name |-> "none", pages |-> 0]
    /\ viewerLast' = "Blank page added."
    /\ UNCHANGED <<pdfDoc, currentRotation, notViewer>>

\* showPreviousPage() (lines 1001-1005)
showPreviousPage ==
    /\ ~(viewerPageNum <= 1)
    /\ viewerPageNum' = viewerPageNum - 1
    /\ viewerLast' = "prevPage"
    /\ UNCHANGED <<pdfDoc, currentRotation, viewerLoads, viewerOp, notViewer>>

\* showNextPage() (lines 1007-1011); reading numPages of null throws.
showNextPage ==
    /\ pdfDoc # 0
    /\ ~(viewerPageNum >= pdfDoc)
    /\ viewerPageNum' = viewerPageNum + 1
    /\ viewerLast' = "nextPage"
    /\ UNCHANGED <<pdfDoc, currentRotation, viewerLoads, viewerOp, notViewer>>

\* rotatePage() of the viewer (lines 875-879)
viewerRotatePage ==
    /\ pdfDoc # 0
    /\ currentRotation' = (currentRotation + 90) % 360
    /\ viewerLast' = "rotatePage"
    /\ UNCHANGED <<pdfDoc, viewerPageNum, viewerLoads, viewerOp, notViewer>>

NextViewer ==
    \/ \E pages \in 1..(MaxViewerPages - 1) : pdfInputChange(pages)
    \/ \E k \in 1..MaxViewerLoads : LoadInstalls(k)
    \/ addPage
    \/ addPageSaved
    \/ showPreviousPage
    \/ showNextPage
    \/ viewerRotatePage

-----------------------------------------------------------------------------
(***************************************************************************)
(* PDFProtection.isEncryptedPDF (src/unnamed/part_000, lines 602-621) and  *)
(* PrivPDF.handleProtectFile (src/privpdf.js, lines 1073-1104).            *)
(* A Uint8Array is a view: `buffer` is its ArrayBuffer, and the array's    *)
(* own bytes are the byteLength bytes of the buffer after byteOffset.      *)
(***************************************************************************)

\* new Uint8Array(arrayBuffer), and every array made by new Uint8Array(n).
WholeView(bytes) == [buffer |-> bytes, byteOffset |-> 0, byteLength |-> Len(bytes)]

\* typedArray.subarray(begin)
Subarray(bytes, begin) ==
    [buffer |-> bytes, byteOffset |-> begin, byteLength |-> Len(bytes) - begin]

\* The bytes data[0], data[1], ... of a view.
ViewBytes(data) ==
    SubSeq(data.buffer, data.byteOffset + 1, data.byteOffset + data.byteLength)

\* `if (data.byteLength < 32) return false;` (line 604)
MinEncryptedLength == 32

Returned(value) == [threw |-> FALSE, value |-> value]
Thrown == [threw |-> TRUE, value |-> FALSE]

\* The try block of isEncryptedPDF (lines 603-617).  `new DataView(data.buffer)`
\* (line 606) and `new Uint8Array(data.buffer, 4, metadataLength)` (line 610)
\* address the ArrayBuffer from its first byte.  The Uint8Array constructor
\* throws a RangeError when the range ends past the buffer, JSON.parse a
\* SyntaxError.
isEncryptedPDFTry(data) ==
    IF data.byteLength < MinEncryptedLength THEN Returned(FALSE)
    ELSE LET metadataLength == GetUint32LE(data.buffer, 0)
         IN  IF metadataLength > 0 /\ metadataLength < data.byteLength
             THEN IF 4 + metadataLength > Len(data.buffer) THEN Thrown
                  ELSE LET metadataBytes == SubSeq(data.buffer, 5, 4 + metadataLength)
                           metadataStr == Utf8Decode(metadataBytes)
                           metadata == JSONparse(metadataStr)
                       IN  IF ~metadata.ok THEN Thrown
                           ELSE Returned(JGet(metadata.val, Str.encryption)
                                             = JStr(Str.AES_256_GCM))
             ELSE Returned(FALSE)

\* isEncryptedPDF(data): `catch { return false; }` (lines 618-620).
isEncryptedPDF(data) ==
    LET r == isEncryptedPDFTry(data)
    IN  IF r.threw THEN Returned(FALSE) ELSE r

\* '{}' and '{"encryption":"AES-256-GCM"}'
EmptyObjectText == <<123, 125>>
EncryptionOnlyText ==
    <<123, 34>> \o Str.encryption \o <<34, 58, 34>> \o Str.AES_256_GCM \o <<34, 125>>

\* Byte strings that no createEncryptedContainer call produced: too short,
\* a zero length field, a length field equal to and above the length, a
\* length field that reaches past the end, and metadata that is not JSON,
\* JSON without an encryption property, and JSON with one.
CraftedInputs ==
    { <<>>,
      Ramp(31, 1, 1),
      LE32(Len(EncryptionOnlyText)) \o EncryptionOnlyText,
      Zeros(32),
      LE32(32) \o Zeros(28),
      LE32(40) \o Zeros(28),
      LE32(31) \o Zeros(28),
      <<255, 255, 255, 255>> \o Zeros(28),
      LE32(8) \o Ramp(28, 65, 1),
      LE32(2) \o EmptyObjectText \o Zeros(26),
      LE32(Len(EncryptionOnlyText)) \o EncryptionOnlyText \o Zeros(4) }

\* Containers of createEncryptedContainer: without and with encrypted data,
\* for a user password 'a' and each choice of permissions.
Containers ==
    { createEncryptedContainer(ed, Ramp(SaltLen, 1, 1), iv, options, now) :
        ed \in {<<>>, <<0, 200>>}, iv \in Ivs,
        options \in {o \in OptionChoices :
                        o.userPassword = <<97>> /\ o.ownerPassword = <<>>},
        now \in Timestamps }

\* The arrays isEncryptedPDF is called with: whole arrays, and the rest of an
\* array after its first byte or its first four bytes.
DetectInputs ==
    {WholeView(b) : b \in Containers \cup CraftedInputs}
    \cup {Subarray(b, begin) : b \in Containers, begin \in {1, 4}}

\* The contents of the files picked in #protect-input.
PickedFiles == Containers \cup CraftedInputs

\* file.type of the file picked in #protect-input
FileTypes == {"application/pdf", "text/plain", ""}

NoDetect == [by |-> "none", data |-> WholeView(<<>>), result |-> FALSE, threw |-> FALSE]

\* What a call isEncryptedPDF(data) made by `by` leaves behind.
Detected(by, data) ==
    LET r == isEncryptedPDF(data)
    IN  [by |-> by, data |-> data, result |-> r.value, threw |-> r.threw]

NoProtectFile == [waiting |-> FALSE, bytes |-> <<>>]

InitDetect ==
    /\ detect = NoDetect
    /\ protectFile = NoProtectFile
    /\ protectUi = [protectBtn |-> "", decryptBtn |-> "", settings |-> "",
                    toast |-> "", toastType |-> "", last |-> "none"]

\* A call pdfProtection.isEncryptedPDF(data).
IsEncryptedPDFCall(data) ==
    /\ UNCHANGED notDetect
    /\ detect' = Detected("caller", data)
    /\ UNCHANGED <<protectFile, protectUi>>

\* handleProtectFile(file), to its return (lines 1074-1077) or to
\* `await file.arrayBuffer()` (line 1082).
handleProtectFile(type, bytes) ==
    /\ UNCHANGED notDetect
    /\ ~protectFile.waiting
    /\ IF type # "application/pdf"
       THEN /\ protectUi' = [protectUi EXCEPT
                                !.toast = "Please select a valid PDF file",
                                !.toastType = "error", !.last = "rejected"]
            /\ UNCHANGED <<detect, protectFile>>
       ELSE /\ protectFile' = [waiting |-> TRUE, bytes |-> bytes]
            /\ protectUi' = [protectUi EXCEPT !.last = "reading"]
            /\ UNCHANGED detect

\* The if statement at lines 1092-1100.
ShowButtons(isEncrypted) ==
    IF isEncrypted
    THEN [protectBtn |-> "none", decryptBtn |-> "inline-flex",
          toast |-> "Encrypted PDF detected. Use decrypt to unlock.",
          toastType |-> "warning"]
    ELSE [protectBtn |-> "inline-flex", decryptBtn |-> "none",
          toast |-> "PDF loaded for protection. Configure security settings below.",
          toastType |-> "success"]

\* file.arrayBuffer() fulfils: the rest of handleProtectFile (lines 1083-1103).
ProtectFileRead ==
    /\ UNCHANGED notDetect
    /\ protectFile.waiting
    /\ detect' = Detected("handleProtectFile", WholeView(protectFile.bytes))
    /\ LET shown == ShowButtons(detect'.result)
       IN  /\ protectUi' = [protectBtn |-> shown.protectBtn,
                            decryptBtn |-> shown.decryptBtn,
                            settings |-> "grid",
                            toast |-> shown.toast, toastType |-> shown.toastType,
                            last |-> "shown"]
    /\ protectFile' = NoProtectFile

\* file.arrayBuffer() rejects: handleProtectFile's promise rejects at line 1082.
ProtectFileUnreadable ==
    /\ UNCHANGED notDetect
    /\ protectFile.waiting
    /\ protectFile' = NoProtectFile
    /\ protectUi' = [protectUi EXCEPT !.last = "unreadable"]
    /\ UNCHANGED detect

NextDetect ==
    \/ \E data \in DetectInputs : IsEncryptedPDFCall(data)
    \/ \E type \in FileTypes, bytes \in PickedFiles :
           handleProtectFile(type, bytes)
    \/ ProtectFileRead
    \/ ProtectFileUnreadable

-----------------------------------------------------------------------------
(***************************************************************************)
(* Specifications                                                          *)
(***************************************************************************)

Init ==
    /\ InitGS /\ InitPP(TRUE) /\ InitOps /\ InitTools /\ InitQpdf /\ InitViewer
    /\ InitDetect

\* GhostscriptWASM alone.
SpecLoad == Init /\ [][NextGS]_vars

LiveLoad == Init /\ [][NextGS]_vars /\ FairGS

\* PDFProtection's container functions, in a browser with or without crypto.subtle.
InitContainer ==
    /\ InitGS /\ InitOps /\ InitTools /\ InitQpdf /\ InitViewer /\ InitDetect
    /\ \E support \in BOOLEAN : InitPP(support)

SpecContainer == InitContainer /\ [][NextPP]_vars

\* The button-triggered operations of PrivPDF.
SpecOps == Init /\ [][NextOps]_vars

\* The page tools of PrivPDF: tool switching, file loading, selection, deletion.
SpecTool == Init /\ [][NextTool]_vars

\* The merge tool of PrivPDF.
SpecMerge == Init /\ [][NextMerge]_vars

\* The fallback stubs, as functions of their arguments.
SpecStubs == Init /\ [][NextStubs]_vars

\* The split tool and the add-pages tool of PrivPDF.
SpecForms == Init /\ [][NextForms]_vars

\* QPDFEncryption and protectWithQPDF.
SpecQpdf == Init /\ [][NextQpdf]_vars

\* The single-document viewer.
SpecViewer == Init /\ [][NextViewer]_vars

\* isEncryptedPDF and the file picker of the protect tool.
SpecDetect == Init /\ [][NextDetect]_vars

\* The rotate tool of PrivPDF.
SpecRotate == Init /\ [][NextRotate]_vars

-----------------------------------------------------------------------------
(***************************************************************************)
(* Claims                                                                  *)
(***************************************************************************)

\* C1: for any interleaving of loadModule calls on one instance, at most one
\* execution of loadRealModule is in progress at any time, and no execution
\* of loadRealModule is started in a state where isLoaded is true.
C1_SingleLoad ==
    /\ [](LoadsInProgress <= 1)
    /\ [][isLoaded => loadStarts' = loadStarts]_vars

\* C1 witness: one call is inside loadRealModule while another call waits in
\* the polling loop.
C1_Witness ==
    \E c, d \in Callers : pc[c] \in InLoadRealModule /\ pc[d] = "polling"

\* C2: every loadModule call that found a load in progress eventually
\* returns, whether the in-flight load succeeds or fails.
C2_WaitersReturn ==
    \A c \in Callers : (pc[c] = "polling") ~> (pc[c] = "returned")

\* C2 witness: a waiting caller has returned although no load has succeeded,
\* i.e. the load it waited for took the failure path.
C2_Witness ==
    \E c \in Callers : pc[c] = "returned" /\ ~isLoaded

C4_ContainerLayout ==
    cIn.made =>
        LET mb == MetadataBytes(cIn.options, cIn.now)
            m == Len(mb)
            c == Len(cIn.encryptedData)
        IN  /\ Len(container) = 4 + m + 16 + 12 + c
            /\ container[1] = m % 256
            /\ container[2] = (m \div 256) % 256
            /\ container[3] = (m \div 65536) % 256
            /\ container[4] = m \div 16777216
            /\ SubSeq(container, 5, 4 + m) = mb
            /\ SubSeq(container, 4 + m + 1, 4 + m + 16) = cIn.salt
            /\ SubSeq(container, 4 + m + 16 + 1, 4 + m + 16 + 12) = cIn.iv
            /\ SubSeq(container, 4 + m + 28 + 1, 4 + m + 28 + c) = cIn.encryptedData

\* A container whose metadata is longer than 255 bytes, so that the second
\* byte of the length prefix is used, with a non-empty ciphertext.
C4_Witness ==
    /\ cIn.made /\ ~encIn.called
    /\ Len(MetadataBytes(cIn.options, cIn.now)) > 255
    /\ container[2] = 1
    /\ cIn.encryptedData # <<>>

RECURSIVE DefinedProps(_, _)
\* The properties of props, from the k-th on, whose value is not undefined.
DefinedProps(props, k) ==
    IF k > Len(props) THEN <<>>
    ELSE IF props[k][2] = JUndef THEN DefinedProps(props, k + 1)
    ELSE <<props[k]>> \o DefinedProps(props, k + 1)

SameBytesUpToTrailingNul(p, q) ==
    StripTrailingZeros(Utf8Encode(p)) = StripTrailingZeros(Utf8Encode(q))

C7_FailuresCaught ==
    (op \in Operations /\ opPc \in Settled) =>
        /\ opPc = "resolved"
        /\ opFailed => (errorShown /\ ~uncaught)

\* C8: when switchTool(t) has returned for an existing tool t, whatever the
\* state before the call, currentTool is t, loadedPDFs, selectedPages and
\* pageRotations are empty, and pageOrder is the empty list.
C8_SwitchToolResets ==
    (last.call = "switchTool" /\ last.tool \in Tools) =>
        /\ currentTool = last.tool
        /\ DOMAIN loadedPDFs = {}
        /\ selectedPages = {}
        /\ DOMAIN pageRotations = {}
        /\ Len(pageOrder) = 0

\* switchTool has just returned from a state in which all four collections
\* held something.
C8_Witness ==
    /\ last.call = "switchTool"
    /\ last.tool \in Tools
    /\ last.nonEmpty = {"loadedPDFs", "selectedPages", "pageRotations", "pageOrder"}
    /\ currentTool = last.tool

\* C10: deletePages, for the loaded source document, downloads a document
\* holding exactly the source pages whose numbers are not in selectedPages,
\* in their original order; when every page of the source is selected it
\* shows 'Cannot delete all pages' and downloads nothing.
C10_DeletePages ==
    (last.call = "deletePages" /\ ~last.threw) =>
        LET n == last.file.numPages
            kept == SelectSeq([i \in 1..n |-> i], LAMBDA i : i \notin selectedPages)
        IN  IF \A i \in 1..n : i \in selectedPages
            THEN out.toastMsg = "Cannot delete all pages" /\ ~out.downloaded
            ELSE /\ out.downloaded
                 /\ out.download = [j \in 1..Len(kept) |-> <<last.file.name, kept[j]>>]

\* deletePages has downloaded a document without the first page of a source
\* of several pages.
C10_Witness ==
    /\ last.call = "deletePages"
    /\ out.downloaded
    /\ 1 \in selectedPages
    /\ last.file.numPages > 1
    /\ Len(out.download) = last.file.numPages - 1

RECURSIVE ListedPages(_)
\* The pages of the files a merge list shows, in list order.
ListedPages(items) ==
    IF items = <<>> THEN <<>>
    ELSE LET f == FileNamed(Head(items).name)
         IN  [i \in 1..f.numPages |-> <<f.name, i>>] \o ListedPages(Tail(items))

\* C9: after any sequence of handleMergeFiles, moveFileUp, moveFileDown and
\* removeFile, mergePDFs downloads one document whose pages are those of
\* the files in the merge list, in list order, each file's pages in their
\* original order; moveFileUp on the first item and moveFileDown on the last
\* item leave the list as it was.
C9_MergeInListOrder ==
    /\ last.call = "mergePDFs" =>
           (out.downloaded /\ out.download = ListedPages(mergeItems))
    /\ (last.call = "moveFileUp" /\ last.index = 1) => mergeItems = last.before
    /\ (last.call = "moveFileDown" /\ last.index = Len(last.before)) =>
           mergeItems = last.before

\* C11: when extractPages completes, either nothing is selected, the toast is
\* 'Please select pages to extract' and nothing is downloaded, or the download
\* holds exactly the pages whose numbers are in selectedPages, each once, in
\* ascending order of page number.
C11_ExtractPages ==
    (last.call = "extractPages" /\ ~last.threw) =>
        LET ascending == SelectSeq([i \in 1..MaxPages |-> i], LAMBDA i : i \in selectedPages)
        IN  IF selectedPages = {}
            THEN out.toastMsg = "Please select pages to extract" /\ ~out.downloaded
            ELSE /\ out.downloaded
                 /\ out.download = [j \in 1..Len(ascending) |-> <<last.file.name, ascending[j]>>]

\* The same, for a selection made of page numbers of the document.
C11_ExtractExistingPages ==
    (last.call = "extractPages" /\ ~last.threw
        /\ selectedPages \subseteq 1..last.file.numPages) => C11_ExtractPages

RECURSIVE Concatenated(_)
\* The pages of a list of downloaded files, one file after the other.
Concatenated(files) ==
    IF files = <<>> THEN <<>> ELSE files[1].pages \o Concatenated(Tail(files))

\* A completed splitPDF in mode 'single', 'size', or 'pages' with a page
\* count that is a number from 1 to the document's page count.
SplitAccepted ==
    /\ last.call = "splitPDF" /\ ~last.threw
    /\ \/ form.method \in {"single", "size"}
       \/ /\ form.method = "pages"
          /\ ~parseInt(form.value).nan
          /\ parseInt(form.value).v \in 1..form.file.numPages

\* C12: in modes 'single', 'pages' (with an accepted page count k) and 'size'
\* the downloaded files, taken in order, are non-empty runs of consecutive
\* pages whose concatenation is the source document; 'single' gives n files
\* of one page; 'pages' gives ceil(n/k) files of k pages, the last one
\* possibly shorter.
C12_SplitPartitions ==
    SplitAccepted =>
        LET n == form.file.numPages
            k == parseInt(form.value).v
        IN  /\ Concatenated(downloads) = Pages(form.file)
            /\ \A j \in DOMAIN downloads : Len(downloads[j].pages) >= 1
            /\ form.method = "single" =>
                  /\ Len(downloads) = n
                  /\ \A j \in DOMAIN downloads : Len(downloads[j].pages) = 1
            /\ form.method = "pages" =>
                  /\ Len(downloads) = (n + k - 1) \div k
                  /\ \A j \in 1..(Len(downloads) - 1) : Len(downloads[j].pages) = k
                  /\ Len(downloads[Len(downloads)].pages) <= k

C12_Witness ==
    /\ SplitAccepted
    /\ form.method = "pages"
    /\ Len(downloads) = 2
    /\ Len(downloads[1].pages) = 3
    /\ Len(downloads[2].pages) = 1

\* C20: a completed splitPDF in mode 'pages' whose page-count input is not a
\* number from 1 to the document's page count shows the error toast 'Invalid
\* page count. Please enter a valid number.' and downloads no file.
C20_InvalidPageCount ==
    (last.call = "splitPDF" /\ ~last.threw /\ form.method = "pages"
        /\ (parseInt(form.value).nan \/ parseInt(form.value).v \notin 1..form.file.numPages)) =>
        /\ out = Toast("error", "Invalid page count. Please enter a valid number.")
        /\ downloads = <<>>

\* The same, for the inputs parseInt turns into a number.
C20_InvalidNumber ==
    (last.call = "splitPDF" /\ ~parseInt(form.value).nan) => C20_InvalidPageCount

\* The reorder tool shows the thumbnails of all the pages of its file and no
\* file handler is at work.
ReorderLoaded ==
    /\ MapHas(loadedPDFs, StrKey("reorder"))
    /\ ~loading["reorder"].active
    /\ Len(thumbs["reorder"]) = loadedPDFs[StrKey("reorder")].numPages

\* C13: once the file of the reorder tool has finished loading, pageOrder is
\* a permutation of 1..n, a completed saveReorderedPDF downloads every page
\* of the file once, in the order the thumbnails are shown in, and after
\* resetPageOrder the order is 1, 2, ..., n.
C13_ReorderPermutation ==
    ReorderLoaded =>
        LET file == loadedPDFs[StrKey("reorder")]
            n == file.numPages
            shown == thumbs["reorder"]
        IN  /\ Len(pageOrder) = n
            /\ \A i \in 1..n : \E j \in 1..n : pageOrder[j] = i
            /\ (last.call = "saveReorderedPDF" /\ ~last.threw) =>
                  /\ out.downloaded
                  /\ out.download = [j \in 1..n |-> <<file.name, shown[j]>>]
            /\ last.call = "resetPageOrder" => pageOrder = [i \in 1..n |-> i]

\* The same without clicks on #reorder-reset while the file is loading and
\* without drags that end without a drop: the download follows pageOrder.
C13_SavedInPageOrder ==
    (ReorderLoaded /\ last.call = "saveReorderedPDF" /\ ~last.threw) =>
        /\ out.downloaded
        /\ out.download = [j \in DOMAIN pageOrder |-> <<last.file.name, pageOrder[j]>>]

\* C14: a completed addPages, for position 'start', 'after' with a page
\* number N of the base document (or 0), or any other position, downloads the
\* base pages b1..bk, then the inserted pages, then b(k+1)..bn, with k = 0,
\* N or n; the inserted pages are the requested number of blank pages or the
\* pages of the source PDF in their order.
C14_AddPages ==
    (last.call = "addPages" /\ ~last.threw
        /\ (form.position = "after" =>
               (~parseInt(form.value).nan /\ parseInt(form.value).v \in 0..form.file.numPages))
        /\ (form.method = "blank" =>
               (~parseInt(form.count).nan /\ parseInt(form.count).v >= 0))
        /\ (form.method # "blank" => form.source # NoFile)) =>
        LET base == Pages(form.file)
            n == Len(base)
            k == IF form.position = "start" THEN 0
                 ELSE IF form.position = "after" THEN parseInt(form.value).v ELSE n
            inserted == IF form.method = "blank"
                        THEN [i \in 1..parseInt(form.count).v |-> BlankPage]
                        ELSE Pages(form.source)
        IN  /\ out.downloaded
            /\ out.download = SubSeq(base, 1, k) \o inserted \o SubSeq(base, k + 1, n)

\* Two pages of a source PDF inserted after page 1 of a longer base document.
C14_Witness ==
    /\ last.call = "addPages" /\ out.downloaded
    /\ form.method = "pdf" /\ form.position = "after"
    /\ form.source.numPages = 2 /\ form.file.numPages > 1
    /\ parseInt(form.value) = Num(1)
    /\ out.download[2] = <<form.source.name, 1>>
    /\ out.download[3] = <<form.source.name, 2>>

\* The bytes of `input`, each XORed with the byte of `key` at its offset
\* modulo the length of the key.
XoredWith(input, key) ==
    [k \in 1..Len(input) |-> BitXor(input[k], key[((k - 1) % KeyLen) + 1])]

\* C15 as the specification states it: for every input and every user
\* password the mock encrypt returns as many bytes as the input has, byte i
\* being input[i] XOR key[i mod 256] with key = generateKey(password); the
\* input bytes are unchanged; a second application with the same password
\* returns the original bytes.
C15_MockEncryptExact ==
    /\ stubIn.fn = "encrypt" =>
          /\ stubOut.data = XoredWith(stubIn.pdfData, generateKey(stubIn.password))
          /\ stubOut.buffer = stubIn.pdfData
    /\ stubIn.fn = "encrypt twice" => stubOut.data = stubIn.pdfData

\* C15: the same with the key of 'default' for an empty user password, and
\* the input unchanged when it is a Uint8Array.
C15_MockEncrypt ==
    /\ stubIn.fn = "encrypt" =>
          /\ Len(stubOut.data) = Len(stubIn.pdfData)
          /\ stubOut.data =
                XoredWith(stubIn.pdfData,
                          generateKey(IF stubIn.password = <<>> THEN DefaultPassword
                                      ELSE stubIn.password))
          /\ stubIn.kind = "Uint8Array" => stubOut.buffer = stubIn.pdfData
    /\ stubIn.fn = "encrypt twice" => stubOut.data = stubIn.pdfData

\* An input longer than the key, encrypted twice with a password.
C15_Witness ==
    /\ stubIn.fn = "encrypt twice"
    /\ Len(stubIn.pdfData) > KeyLen
    /\ stubIn.password # <<>>
    /\ stubIn.kind = "Uint8Array"
    /\ stubOut.data = stubIn.pdfData
    /\ stubOut.buffer = stubIn.pdfData

\* The ratio the specification gives for a quality, as a fraction.
StatedRatio(quality) ==
    CASE quality = "screen" -> <<3, 10>>
      [] quality = "printer" -> <<7, 10>>
      [] quality = "prepress" -> <<17, 20>>
      [] OTHER -> <<1, 2>>

C17_CompressUiReset ==
    (op = "compressPDFWithWASM" /\ opPc \in Settled) => compressUi = CompressIdle


\* C18: whenever encryptPDF, or protectWithQPDF through it, returns
\* isRealEncryption = true, the returned bytes come from a QPDF WASM module
\* and not from the XOR mock _loadQPDF installs when loading fails.
C18_RealEncryptionIsReal ==
    \A c \in QCalls :
        (/\ qcalls[c].kind \in {"encryptPDF", "protectWithQPDF"}
         /\ qcalls[c].pc = "returned"
         /\ qcalls[c].out.isRealEncryption)
        => qcalls[c].out.producer = "real"

\* What holds of the flag: it is true exactly when the bytes are those the
\* `encrypt` of this.qpdf returned, whether that is a module or the mock.
C18_FlagMeansEncryptCalled ==
    \A c \in QCalls :
        (/\ qcalls[c].kind \in {"encryptPDF", "protectWithQPDF"}
         /\ qcalls[c].pc = "returned")
        => (qcalls[c].out.isRealEncryption <=> qcalls[c].out.producer \in {"real", "mock"})

\* C19: a protectWithQPDF call for which QPDF is unavailable, or whose
\* loadModule or encryptPDF call fails, ends with the outcome of
\* protectWithPDFLib on the same input and options, and protectWithQPDF
\* throws only when protectWithPDFLib has thrown.
C19_ProtectFallsBack ==
    \A c \in QCalls :
        LET call == qcalls[c]
        IN  (call.kind = "protectWithQPDF" /\ call.pc \in {"returned", "threw"}) =>
               /\ (call.unavailable \/ call.loadFailed \/ call.encryptFailed) =>
                     /\ call.libArgs = <<call.pdfData, call.userPassword>>
                     /\ call.pc = "returned" => call.out.producer = "protectWithPDFLib"
               /\ call.pc = "threw" => call.libFailed

\* A call whose encryptPDF threw and which returned what protectWithPDFLib
\* returned.
C19_Witness ==
    \E c \in QCalls :
        /\ qcalls[c].kind = "protectWithQPDF"
        /\ qcalls[c].pc = "returned"
        /\ qcalls[c].encryptFailed
        /\ qcalls[c].out.producer = "protectWithPDFLib"
        /\ qcalls[c].libArgs = <<qcalls[c].pdfData, qcalls[c].userPassword>>

\* The other two cases: a call whose loadModule threw, and one that found no
\* QPDFEncryption class.
C19_LoadFailedCase ==
    \E c \in QCalls :
        /\ qcalls[c].kind = "protectWithQPDF" /\ qcalls[c].pc = "returned"
        /\ qcalls[c].loadFailed

C19_UnavailableCase ==
    \E c \in QCalls :
        /\ qcalls[c].kind = "protectWithQPDF" /\ qcalls[c].pc = "threw"
        /\ qcalls[c].unavailable


\* The entries of the range input of the latest splitPDF, and whether an
\* entry reads as start..end with 1 <= start <= end <= n.
RangeEntries ==
    LET ranges == StrSplit(form.value, 44)
    IN  [j \in DOMAIN ranges |-> StrTrim(ranges[j])]

ValidEntry(entry, n) ==
    LET r == ParseRange(entry)
    IN  /\ ~r.startPage.nan /\ ~r.endPage.nan
        /\ 1 <= r.startPage.v /\ r.startPage.v <= r.endPage.v /\ r.endPage.v <= n

\* C21: in split mode 'range' the downloaded files are, in order, one per
\* entry that reads as start..end with 1 <= start <= end <= totalPages, each
\* holding the pages start..end in order; the other entries of a non-blank
\* input are skipped with a warning; without a valid entry an error toast is
\* shown and nothing is downloaded; the success toast reports the number of
\* files downloaded.
C21_RangeSplit ==
    (last.call = "splitPDF" /\ ~last.threw /\ form.method = "range") =>
        LET n == form.file.numPages
            valid == SelectSeq(RangeEntries, LAMBDA e : ValidEntry(e, n))
            others == SelectSeq(RangeEntries, LAMBDA e : ~ValidEntry(e, n))
        IN  /\ Len(downloads) = Len(valid)
            /\ \A j \in DOMAIN downloads :
                  LET r == ParseRange(valid[j])
                  IN  downloads[j].pages =
                         [k \in 1..(r.endPage.v - r.startPage.v + 1) |->
                             <<form.file.name, r.startPage.v + k - 1>>]
            /\ StrTrim(form.value) # <<>> => form.warnings = others
            /\ Len(valid) = 0 => out.toastType = "error" /\ downloads = <<>>
            /\ Len(valid) > 0 =>
                  /\ out.toastType = "success"
                  /\ form.filesCreated = Len(downloads)

\* The input "4,,5" on a document of four pages: page 4 is downloaded, the
\* empty entry and "5" are skipped.
C21_Witness ==
    /\ last.call = "splitPDF" /\ ~last.threw /\ form.method = "range"
    /\ form.value = <<52, 44, 44, 53>>
    /\ form.file.numPages = 4
    /\ Len(downloads) = 1
    /\ downloads[1].pages = <<<<form.file.name, 4>>>>
    /\ form.warnings = << <<>>, <<53>> >>
    /\ form.filesCreated = 1
    /\ out.toastType = "success"

\* A range of three pages, and an entry in hexadecimal notation.
C21_SeveralPages ==
    /\ last.call = "splitPDF" /\ form.method = "range"
    /\ \/ \E j \in DOMAIN downloads : Len(downloads[j].pages) = 3
       \/ form.value = <<48, 120, 50>> /\ Len(downloads) = 1


\* C22: when the document addPage handed to loadPDF has been installed,
\* pageNum is its page count: the viewer is on the added last page.
C22_AddPageShowsLast ==
    viewerLast = "addPage:installed" => viewerPageNum = pdfDoc

\* What holds instead: the installation sets pageNum to 1.
C22_InstallShowsFirst ==
    viewerLast \in {"addPage:installed", "file:installed"} => viewerPageNum = 1

\* The length that the first four bytes of the array itself spell.
OwnLength(data) == GetUint32LE(ViewBytes(data), 0)

\* C23: isEncryptedPDF never throws; it returns true for every container of
\* createEncryptedContainer, and false for every input shorter than 32 bytes
\* and for every input whose own first four bytes, read as a little-endian
\* length, are 0 or not less than the input's length; handleProtectFile shows
\* the decrypt button exactly when isEncryptedPDF returned true, and the
\* protect button otherwise.
C23_IsEncryptedPDF ==
    /\ detect.by # "none" =>
          /\ ~detect.threw
          /\ (detect.data.byteOffset = 0 /\ detect.data.buffer \in Containers)
                => detect.result
          /\ detect.data.byteLength < 32 => ~detect.result
          /\ (detect.data.byteLength >= 4
                /\ (OwnLength(detect.data) = 0
                      \/ OwnLength(detect.data) >= detect.data.byteLength))
                => ~detect.result
    /\ (protectUi.last = "shown" /\ detect.by = "handleProtectFile") =>
          /\ (protectUi.decryptBtn = "inline-flex") <=> detect.result
          /\ (protectUi.protectBtn = "inline-flex") <=> ~detect.result
          /\ protectUi.decryptBtn \in {"inline-flex", "none"}
          /\ protectUi.protectBtn \in {"inline-flex", "none"}

\* What holds instead: the length is read from the first four bytes of the
\* array's ArrayBuffer, which are the array's own only when byteOffset is 0.
C23_WholeArrays ==
    /\ detect.by # "none" =>
          /\ ~detect.threw
          /\ (detect.data.byteOffset = 0 /\ detect.data.buffer \in Containers)
                => detect.result
          /\ detect.data.byteLength < 32 => ~detect.result
          /\ (detect.data.byteLength >= 4
                /\ (GetUint32LE(detect.data.buffer, 0) = 0
                      \/ GetUint32LE(detect.data.buffer, 0) >= detect.data.byteLength))
                => ~detect.result
    /\ (protectUi.last = "shown" /\ detect.by = "handleProtectFile") =>
          /\ detect.data.byteOffset = 0
          /\ (protectUi.decryptBtn = "inline-flex") <=> detect.result
          /\ (protectUi.protectBtn = "inline-flex") <=> ~detect.result
          /\ protectUi.decryptBtn \in {"inline-flex", "none"}
          /\ protectUi.protectBtn \in {"inline-flex", "none"}

\* A container picked in the protect tool: the decrypt button is shown.
C23_ContainerDetected ==
    /\ protectUi.last = "shown" /\ detect.by = "handleProtectFile"
    /\ detect.data.buffer \in Containers
    /\ detect.result
    /\ protectUi.decryptBtn = "inline-flex" /\ protectUi.protectBtn = "none"
    /\ protectUi.toastType = "warning"

\* The rest of a container after its first byte: its own first four bytes
\* spell a length above its own, and isEncryptedPDF answers true.
C23_OffsetView ==
    /\ detect.by = "caller"
    /\ detect.data.byteOffset = 1
    /\ OwnLength(detect.data) >= detect.data.byteLength
    /\ detect.result


\* C24: whenever a loadModule call has returned without throwing, isLoaded is
\* true and module.compress is defined; this includes a caller that waited in
\* the polling loop while another call was loading.
C24_ReturnMeansLoaded ==
    \A c \in Callers : pc[c] = "returned" => (isLoaded /\ gsModule = "bound")

\* What holds instead: a call that returns from line 12 or after its own
\* `await this.loadRealModule(...)` leaves the module loaded, and so does a
\* waiting call unless a progress callback has thrown.
C24_LoaderReturnsLoaded ==
    /\ [][\A c \in Callers :
            (pc[c] # "polling" /\ pc[c] # "returned" /\ pc'[c] = "returned")
                => (isLoaded' /\ gsModule' = "bound")]_vars
    /\ [](~cbThrew => C24_ReturnMeansLoaded)

StatusSteps ==
    { <<"not-loaded", "loading">>, <<"loading", "ready">>, <<"loading", "not-loaded">> }

\* C25: isLoaded and isLoading are never both true; getStatus() changes only
\* from 'not-loaded' to 'loading', from 'loading' to 'ready', and from
\* 'loading' to 'not-loaded' when the load has failed (its loadModule call
\* throws); once 'ready' it does not change again.
C25_StatusTransitions ==
    /\ [](~(isLoaded /\ isLoading))
    /\ [][getStatus' # getStatus => <<getStatus, getStatus'>> \in StatusSteps]_vars
    /\ [][(getStatus = "loading" /\ getStatus' = "not-loaded")
             => \E c \in Callers : pc[c] = "rejected" /\ pc'[c] = "threw"]_vars
    /\ [][getStatus = "ready" => getStatus' = "ready"]_vars

\* The instance is ready after two loads were started: the first one failed
\* and took the status back to 'not-loaded', the second one succeeded.
C25_Witness ==
    /\ getStatus = "ready"
    /\ loadStarts = 2
    /\ \E c \in Callers : pc[c] = "threw"

\* The rotation saveRotatedPDF finds accumulated for page i.
Accumulated(i) ==
    IF MapHas(pageRotations, NumKey(i)) THEN pageRotations[NumKey(i)] ELSE 0

\* C26: in the document saveRotatedPDF saves, the rotation of every page is
\* (the page's rotation in the source file + the rotation accumulated for it
\* by rotatePage and rotateAllPages) mod 360; a page whose accumulated
\* rotation is 0 keeps its source rotation.
C26_RotationAdded ==
    (last.call = "saveRotatedPDF" /\ out.downloaded) =>
        \A i \in 1..last.file.numPages :
            /\ out.download[i][3] = (SourceRotation(last.file, i) + Accumulated(i)) % 360
            /\ Accumulated(i) = 0 => out.download[i][3] = SourceRotation(last.file, i)

\* What holds instead: a page whose accumulated rotation is not 0 is saved
\* with the accumulated rotation, whatever its rotation in the source file.
C26_RotationReplaced ==
    (last.call = "saveRotatedPDF" /\ out.downloaded) =>
        /\ Len(out.download) = last.file.numPages
        /\ \A i \in 1..last.file.numPages :
              /\ out.download[i][1] = last.file.name /\ out.download[i][2] = i
              /\ out.download[i][3] =
                    IF Accumulated(i) # 0 THEN Accumulated(i)
                    ELSE SourceRotation(last.file, i)

\* A page that is turned by 90 degrees in the source file and was turned by
\* another 90 degrees in the tool is saved with a rotation of 90.
C26_TurnedPage ==
    /\ last.call = "saveRotatedPDF" /\ out.downloaded
    /\ SourceRotation(last.file, 1) = 90
    /\ Accumulated(1) = 90
    /\ out.download[1][3] = 90

=============================================================================
